---- MODULE Spec2Model ----
(***************************************************************************)
(* The network manager of crates/net/network/src/manager.rs as a state     *)
(* machine: NetworkManager::poll, stepped one loop iteration at a time,    *)
(* its handlers (on_handle_message, on_peer_message,                       *)
(* on_block_import_result and the SwarmEvent match), and the collaborators *)
(* the handlers call (Swarm, SessionManager, NetworkState / PeersManager,  *)
(* BlockImport), whose code lies outside manager.rs.                       *)
(***************************************************************************)
EXTENDS Integers, Sequences, FiniteSets, TLC

\* ---------------------------------------------------------------- bounds
NumPeers == 2
MaxCmds == 2
MaxBurst == 2
MaxPendingIn == 1
MaxImports == 1
EthCapacity == 2
MaxDropped == 1
MaxStrikes == 2
MaxHead == 1
MaxActive == 1
MaxActivePeers == 4

\* `let mut budget = 1024;`
BUDGET == 1024

Peers == 1..NumPeers
NoPeer == 0
Dirs == {"in", "out"}

VARIABLES
    pc,               \* position of poll: idle (returned Pending), import, commands, swarm, done (returned Ready)
    budget,           \* the local `budget` of the swarm loop
    woken,            \* the task's waker has been fired since the last poll began
    num_active_peers, \* NetworkManager.num_active_peers (shared AtomicUsize)
    from_handle_rx,   \* commands buffered in the handle channel, oldest first
    chanClosed,       \* the command channel has been closed
    mode,             \* handle.mode(): PoW or PoS
    swarm,            \* NetworkManager.swarm: connection state, sessions, peer set
    block_import,     \* NetworkManager.block_import: blocks under validation, per peer
    calls,            \* the calls the latest step made on its collaborators, in order
    last,             \* the item the latest step handled, NoItem if it handled none
    phases,           \* the phases that handled an item in the current wakeup, in order
    handled,          \* swarm events handled in the current wakeup
    selfWoke,         \* wake_by_ref was called by the latest swarm phase
    carried,          \* commands still buffered that were buffered when this wakeup began
    estOpen,          \* per peer: SessionEstablished broadcasts not yet followed by SessionClosed
    enq,              \* commands sent on the handle channel so far
    to_eth_request_handler,  \* NetworkManager.to_eth_request_handler: set or not, the
                             \* requests buffered in the bounded channel, oldest first,
                             \* and whether its receiver has been dropped
    to_transactions_manager, \* NetworkManager.to_transactions_manager is Some
    metrics,          \* metrics.total_dropped_eth_requests_at_full_capacity
    tracked_peers,    \* metrics.tracked_peers, a gauge
    backed_off_peers, \* metrics.backed_off_peers, a gauge
    outcomes,         \* per peer: outcomes block import has ready and has not yet yielded
    observed,         \* the sources that returned Pending in the current wakeup, and so
                      \* were left the waker of `cx`: import, commands, swarm
    propagation       \* NetworkState: the active peers, which of them have seen the block
                      \* being propagated, and the announces queued for them

vars == <<pc, budget, woken, num_active_peers, from_handle_rx, chanClosed, mode,
          swarm, block_import, calls, last, phases, handled, selfWoke, carried, estOpen,
          enq, to_eth_request_handler, to_transactions_manager, metrics, tracked_peers,
          backed_off_peers, outcomes, observed, propagation>>

\* the outbound channels and the metrics
outs == <<to_eth_request_handler, to_transactions_manager, metrics, tracked_peers,
          backed_off_peers, propagation>>

\* ------------------------------------------------------------ data shapes
\* A command, a swarm event, an import outcome: a kind, a peer, one argument.
Item(kind, peer, arg) == [kind |-> kind, peer |-> peer, arg |-> arg]
\* A call on a collaborator, as it appears in `calls`.
Call(op, peer, arg) == [op |-> op, peer |-> peer, arg |-> arg]

NoItem == Item("none", NoPeer, "")

\* PeerKind of a record; AddPeerAddress(peer, kind, addr) carries one.
PeerKinds == {"Static", "Dynamic", "Trusted"}

\* ReputationChangeKind
ReputationChangeKinds ==
    {"BadMessage", "BadBlock", "BadProtocol", "FailedToConnect", "Timeout",
     "AlreadyConnected", "Dropped", "Reset"}

\* the bounds of a reputation, the reputation of a new record, and the threshold
\* below which a peer is banned
REP_MIN == 0 - 2
REP_MAX == 0
DEFAULT_REPUTATION == 0
BAN_THRESHOLD == 0 - 1

\* the chain heads a StatusUpdate may carry, by block number, and the block at
\* which the fork schedule changes the fork id
Heads == 0..MaxHead
ForkBlock == 1

\* NetworkHandleMessage, the variants modelled.
Commands ==
    {Item(k, p, "") : k \in {"RemovePeer", "DisconnectPeer"}, p \in Peers}
    \cup {Item("AddPeerAddress", p, k) : p \in Peers, k \in {"Static", "Trusted"}}
    \cup {Item("Shutdown", NoPeer, r) : r \in {"rx_alive", "rx_dropped"}}
    \cup {Item("AnnounceBlock", NoPeer, "")}
    \cup {Item("ReputationChange", p, k) : p \in Peers, k \in ReputationChangeKinds}
    \cup {Item("StatusUpdate", NoPeer, h) : h \in Heads}
    \cup {Item(k, NoPeer, r) : k \in {"FetchClient", "GetStatus", "GetPeerInfo"},
                               r \in {"rx_alive", "rx_dropped"}}
    \cup {Item(k, p, r) : k \in {"GetReputationById", "GetPeerInfoById"}, p \in Peers,
                          r \in {"rx_alive", "rx_dropped"}}

\* the commands that ask for a snapshot and carry the sender of a one-shot channel
Queries ==
    {"GetReputationById", "FetchClient", "GetStatus", "GetPeerInfo", "GetPeerInfoById"}

\* PeerRequest: the requests the eth-request task answers, and all of them.
EthHandlerRequests == {"GetBlockHeaders", "GetBlockBodies", "GetNodeData", "GetReceipts"}
PeerRequests == EthHandlerRequests \cup {"GetPooledTransactions"}

\* PeerMessage, the variants modelled.
PeerMessages ==
    {"NewBlockHashes", "NewBlock", "PooledTransactions", "ReceivedTransaction",
     "SendTransactions", "Other"} \cup PeerRequests

\* The messages a session passes on: SendTransactions only ever goes out to the peer.
SessionEmits == PeerMessages \ {"SendTransactions"}

\* The `error` of a SessionClosed / PendingSessionClosed event:
\* none, a disconnect received from the peer, or an io error.
CloseErrors == {"none", "disconnected", "io"}

\* SwarmEvent, the variants modelled.
SwarmEvents ==
    {Item("ValidMessage", p, m) : p \in Peers, m \in PeerMessages}
    \cup {Item("TcpListenerClosed", NoPeer, ""), Item("TcpListenerError", NoPeer, ""),
          Item("IncomingTcpConnection", NoPeer, "")}
    \cup {Item("OutgoingTcpConnection", p, "") : p \in Peers}
    \cup {Item("SessionEstablished", p, d) : p \in Peers, d \in Dirs}
    \cup {Item("PeerAdded", p, "") : p \in Peers}
    \cup {Item("PeerRemoved", p, "") : p \in Peers}
    \cup {Item("SessionClosed", p, e) : p \in Peers, e \in CloseErrors}
    \cup {Item("IncomingPendingSessionClosed", NoPeer, e) : e \in CloseErrors}
    \cup {Item("OutgoingPendingSessionClosed", p, e) : p \in Peers, e \in CloseErrors}
    \cup {Item("OutgoingConnectionError", p, "io") : p \in Peers}
    \cup {Item(k, p, "") : k \in {"InvalidCapabilityMessage", "BadMessage", "ProtocolBreach"},
                           p \in Peers}

\* BlockImportOutcome { peer, result }.
ImportOutcomes ==
    {Item(r, p, "") : r \in {"ValidHeader", "ValidBlock", "Err"}, p \in Peers}

\* ------------------------------------------------------------- the Swarm
\* Swarm { incoming, sessions, state, net_connection_state }.
\*   conn           NetworkConnectionState
\*   sessions       established sessions per peer and direction
\*   closing        peers whose session was told to disconnect
\*   pendingOut     peers with an outbound handshake in progress
\*   pendingIn      inbound handshakes in progress (the peer is not known yet)
\*   known          the peers that have a record in the peer set
\*   kind, rep, strikes, backoff
\*                  the record of a peer: its PeerKind, its reputation, its count of
\*                  consecutive connection failures, and the length of the backoff
\*                  window it is in (0: it is not backed off)
\*   num_known, num_backed_off
\*                  the peer set's counters
\*   max_active     the configured limit of active peers
\*   peer_actions   PeerAdded / PeerRemoved queued by the peer set
\*   head, fork_id  the head of the advertised Status and the fork id of the
\*                  network state
SwarmNew ==
    [conn |-> "Active",
     sessions |-> [p \in Peers |-> [d \in Dirs |-> 0]],
     closing |-> {},
     pendingOut |-> {},
     pendingIn |-> 0,
     known |-> {},
     kind |-> [p \in Peers |-> "Dynamic"],
     rep |-> [p \in Peers |-> DEFAULT_REPUTATION],
     strikes |-> [p \in Peers |-> 0],
     backoff |-> [p \in Peers |-> 0],
     num_known |-> 0,
     num_backed_off |-> 0,
     max_active |-> NumPeers,
     peer_actions |-> <<>>,
     head |-> 0,
     fork_id |-> 0]

NumSessions(sw, p) == sw.sessions[p]["in"] + sw.sessions[p]["out"]
HasSession(sw, p) == NumSessions(sw, p) > 0
Established(sw) == {p \in Peers : HasSession(sw, p)}

RECURSIVE SumOver(_, _)
SumOver(f, S) ==
    IF S = {} THEN 0
    ELSE LET x == CHOOSE y \in S : TRUE IN f[x] + SumOver(f, S \ {x})

\* the number of sessions in the Established state
NumEstablished(sw) == SumOver([p \in Peers |-> NumSessions(sw, p)], Peers)

\* Swarm::is_shutting_down
is_shutting_down(sw) == sw.conn = "ShuttingDown"

\* Swarm::on_shutdown_requested
on_shutdown_requested(sw) == [sw EXCEPT !.conn = "ShuttingDown"]

\* SessionManager::disconnect: tell the peer's session, if any, to disconnect.
sessions_disconnect(sw, p) ==
    IF HasSession(sw, p) THEN [sw EXCEPT !.closing = @ \cup {p}] ELSE sw

\* SessionManager::disconnect_all
sessions_disconnect_all(sw) == [sw EXCEPT !.closing = Established(sw)]

\* SessionManager::disconnect_all_pending
sessions_disconnect_all_pending(sw) == [sw EXCEPT !.pendingOut = {}, !.pendingIn = 0]

\* ------------------------------------------------------------ the peer set
\* ReputationChangeKind -> its signed delta; Reset is the delta that no clamp survives
Delta(kind) ==
    CASE kind \in {"BadMessage", "BadBlock", "FailedToConnect", "Timeout", "Dropped"} -> 0 - 1
      [] kind = "BadProtocol" -> 0 - 2
      [] kind = "AlreadyConnected" -> 0
      [] kind = "Reset" -> REP_MAX - REP_MIN

\* reputation is clamped to [REP_MIN, REP_MAX]
Clamp(r) == IF r < REP_MIN THEN REP_MIN ELSE IF r > REP_MAX THEN REP_MAX ELSE r

RECURSIVE Pow2(_)
Pow2(n) == IF n = 0 THEN 1 ELSE 2 * Pow2(n - 1)

\* backoff(kind, strikes): exponential in the count of consecutive failures
backoff(kind, strikes) == Pow2(strikes)

is_trusted(sw, p) == p \in sw.known /\ sw.kind[p] = "Trusted"

is_backed_off(sw, p) == sw.backoff[p] > 0

\* PeerRecord.state
PeerState(sw, p) ==
    CASE is_backed_off(sw, p) -> "BackedOff"
      [] ~is_backed_off(sw, p) /\ HasSession(sw, p) -> "Connected"
      [] ~is_backed_off(sw, p) /\ ~HasSession(sw, p) /\ p \in sw.pendingOut -> "PendingOut"
      [] OTHER -> "Idle"

\* the counters of the peer set
num_known_peers(sw) == sw.num_known
num_backed_off_peers(sw) == sw.num_backed_off

\* NetworkState::add_peer_kind: a new record queues PeerAdded.
add_peer_kind(sw, p, kind) ==
    IF p \in sw.known THEN sw
    ELSE [sw EXCEPT !.known = @ \cup {p},
                    !.kind[p] = kind,
                    !.num_known = @ + 1,
                    !.peer_actions = Append(@, Item("PeerAdded", p, ""))]

\* a peer set that removes a trusted peer like any other
remove_peer_any(sw, p) ==
    IF p \notin sw.known THEN sw
    ELSE [sw EXCEPT !.known = @ \ {p},
                    !.kind[p] = "Dynamic",
                    !.rep[p] = DEFAULT_REPUTATION,
                    !.strikes[p] = 0,
                    !.backoff[p] = 0,
                    !.num_known = @ - 1,
                    !.num_backed_off = IF is_backed_off(sw, p) THEN @ - 1 ELSE @,
                    !.peer_actions = Append(@, Item("PeerRemoved", p, ""))]

\* NetworkState::remove_peer: an unknown peer is left alone, and so is a trusted one.
remove_peer(sw, p) ==
    IF p \notin sw.known \/ is_trusted(sw, p) THEN sw
    ELSE [sw EXCEPT !.known = @ \ {p},
                    !.kind[p] = "Dynamic",
                    !.rep[p] = DEFAULT_REPUTATION,
                    !.strikes[p] = 0,
                    !.backoff[p] = 0,
                    !.num_known = @ - 1,
                    !.num_backed_off = IF is_backed_off(sw, p) THEN @ - 1 ELSE @,
                    !.peer_actions = Append(@, Item("PeerRemoved", p, ""))]

\* the peer becomes BackedOff: backoff_until = now + backoff(kind, strikes), its
\* session, if any, is told to disconnect
ban_peer(sw, p, kind) ==
    sessions_disconnect(
        [sw EXCEPT !.backoff[p] = backoff(kind, sw.strikes[p]),
                   !.num_backed_off = IF is_backed_off(sw, p) THEN @ ELSE @ + 1], p)

\* PeersManager::apply_reputation_change: add the delta, clamp, and below the
\* threshold back the peer off, unless it is trusted
apply_reputation_change(sw, p, kind) ==
    IF p \notin sw.known THEN sw
    ELSE LET r == Clamp(sw.rep[p] + Delta(kind))
             sw1 == [sw EXCEPT !.rep[p] = r]
         IN  IF r < BAN_THRESHOLD /\ ~is_trusted(sw, p)
             THEN ban_peer(sw1, p, kind)
             ELSE sw1

\* PeersManager::on_active_session_dropped: the reputation change of a dropped session
on_active_session_dropped(sw, p, err) == apply_reputation_change(sw, p, "Dropped")

\* PeersManager::on_active_session_gracefully_closed: no reputation change
on_active_session_gracefully_closed(sw, p) == sw

\* PeersManager::on_outgoing_connection_failure: one more consecutive failure, the
\* FailedToConnect delta, and the backoff of that count, unless the peer is trusted
on_outgoing_connection_failure(sw, p, err) ==
    IF p \notin sw.known THEN sw
    ELSE LET sw1 == [sw EXCEPT !.strikes[p] = @ + 1,
                               !.rep[p] = Clamp(@ + Delta("FailedToConnect"))]
         IN  IF is_trusted(sw, p) THEN sw1
             ELSE ban_peer(sw1, p, "FailedToConnect")

\* PeersManager::on_incoming_session_established: an unknown peer gets a Dynamic
\* record; the session of a peer that is backed off is not accepted
on_incoming_session_established(sw, p) ==
    IF p \notin sw.known THEN add_peer_kind(sw, p, "Dynamic")
    ELSE IF is_backed_off(sw, p) /\ ~is_trusted(sw, p) THEN sessions_disconnect(sw, p)
    ELSE sw

\* the backoff window of a peer ends: it is Idle again, and a reputation below
\* the threshold starts afresh
backoff_elapsed(sw, p) ==
    [sw EXCEPT !.backoff[p] = 0,
               !.num_backed_off = @ - 1,
               !.rep[p] = IF @ < BAN_THRESHOLD THEN DEFAULT_REPUTATION ELSE @]

\* a session manager that accepts every completed handshake
SessionAcceptedAlways(sw, p) == TRUE

\* The session manager accepts a completed handshake only for a peer without a session.
SessionAccepted(sw, p) == ~HasSession(sw, p)

\* a swarm that goes on accepting and dialling while it shuts down
SwarmOpenAlways(sw) == TRUE

\* The swarm takes inbound connections and dials only while Active.
SwarmOpen(sw) == ~is_shutting_down(sw)

\* A pending session of direction d that may belong to peer p.
HasPending(sw, p, d) ==
    IF d = "in" THEN sw.pendingIn > 0 ELSE p \in sw.pendingOut

DropPending(sw, p, d) ==
    IF d = "in" THEN [sw EXCEPT !.pendingIn = @ - 1]
    ELSE [sw EXCEPT !.pendingOut = @ \ {p}]

\* a schedule that dials any peer it has a record of and no session with
DialEligibleAnyState(sw, p) ==
    /\ p \in sw.known
    /\ ~HasSession(sw, p)
    /\ p \notin sw.pendingOut

\* NetworkState, dial scheduling: the peer is Idle with a known address and the
\* count of active peers is below the configured limit
DialEligible(sw, p) ==
    /\ p \in sw.known
    /\ PeerState(sw, p) = "Idle"
    /\ NumEstablished(sw) < sw.max_active

\* the peer the schedule dials next: a trusted peer before any other
NextDial(sw, p) ==
    /\ DialEligible(sw, p)
    /\ is_trusted(sw, p) \/ \A q \in Peers : DialEligible(sw, q) => ~is_trusted(sw, q)

\* Swarm::poll_next can yield event e in state sw.
SwarmCanYield(sw, e) ==
    CASE e.kind = "ValidMessage" ->
            /\ HasSession(sw, e.peer)
            /\ e.arg \in SessionEmits
            /\ e.arg = "NewBlock" => SumOver(block_import, Peers) < MaxImports
      [] e.kind \in {"TcpListenerClosed", "TcpListenerError"} -> TRUE
      [] e.kind = "IncomingTcpConnection" ->
            SwarmOpen(sw) /\ sw.pendingIn < MaxPendingIn
      [] e.kind = "OutgoingTcpConnection" -> SwarmOpen(sw) /\ NextDial(sw, e.peer)
      [] e.kind = "SessionEstablished" ->
            HasPending(sw, e.peer, e.arg) /\ SessionAccepted(sw, e.peer)
      [] e.kind = "SessionClosed" -> HasSession(sw, e.peer)
      [] e.kind = "IncomingPendingSessionClosed" -> sw.pendingIn > 0
      [] e.kind = "OutgoingPendingSessionClosed" -> e.peer \in sw.pendingOut
      [] e.kind = "OutgoingConnectionError" ->
            e.peer \in sw.pendingOut /\ sw.strikes[e.peer] < MaxStrikes
      [] e.kind \in {"InvalidCapabilityMessage", "BadMessage", "ProtocolBreach"} ->
            HasSession(sw, e.peer)
      [] e.kind \in {"PeerAdded", "PeerRemoved"} ->
            sw.peer_actions # <<>> /\ Head(sw.peer_actions) = e
      [] OTHER -> FALSE

\* The swarm's own state once poll_next has yielded e.
SwarmAfterYield(sw, e) ==
    CASE e.kind = "IncomingTcpConnection" -> [sw EXCEPT !.pendingIn = @ + 1]
      [] e.kind = "OutgoingTcpConnection" -> [sw EXCEPT !.pendingOut = @ \cup {e.peer}]
      [] e.kind = "SessionEstablished" ->
            [DropPending(sw, e.peer, e.arg) EXCEPT !.sessions[e.peer][e.arg] = @ + 1,
                                                   !.strikes[e.peer] = 0]
      [] e.kind = "SessionClosed" ->
            [sw EXCEPT !.sessions[e.peer] = [d \in Dirs |-> 0],
                       !.closing = @ \ {e.peer}]
      [] e.kind = "IncomingPendingSessionClosed" -> DropPending(sw, NoPeer, "in")
      [] e.kind \in {"OutgoingPendingSessionClosed", "OutgoingConnectionError"} ->
            DropPending(sw, e.peer, "out")
      [] e.kind \in {"PeerAdded", "PeerRemoved"} ->
            [sw EXCEPT !.peer_actions = Tail(@)]
      [] OTHER -> sw

\* ----------------------------------------------------------- the manager
\* What a handler reads and writes: the shared counter, the swarm, the block
\* import, the subscribers' view, and the calls made so far.
Mgr(sw) ==
    [n |-> num_active_peers, sw |-> sw, bi |-> block_import, est |-> estOpen,
     eth |-> to_eth_request_handler.buf, dropped |-> metrics, tracked |-> tracked_peers,
     backed |-> backed_off_peers, calls |-> <<>>]

Do(m, c) == [m EXCEPT !.calls = Append(@, c)]

Commit(m) ==
    /\ num_active_peers' = m.n
    /\ swarm' = m.sw
    /\ block_import' = m.bi
    /\ estOpen' = m.est
    /\ calls' = m.calls
    /\ to_eth_request_handler' = [to_eth_request_handler EXCEPT !.buf = m.eth]
    /\ metrics' = m.dropped
    /\ tracked_peers' = m.tracked
    /\ backed_off_peers' = m.backed
    /\ UNCHANGED <<to_transactions_manager, propagation, observed>>

\* NetworkManager::notify_tx_manager: `let _ = tx.send(event)` if configured
notify_tx_manager(m, peer_id, event) ==
    IF to_transactions_manager
    THEN Do(m, Call("to_transactions_manager.send", peer_id, event))
    ELSE m

\* a delegate that counts a dropped request without dropping it
delegate_eth_request_counted_only(m, peer_id, event) ==
    IF ~to_eth_request_handler.set THEN m
    ELSE IF Len(m.eth) < EthCapacity
    THEN Do([m EXCEPT !.eth = Append(@, Item(event, peer_id, ""))],
            Call("to_eth_request_handler.try_send", peer_id, event))
    ELSE Do([m EXCEPT !.eth = Append(@, Item(event, peer_id, "")), !.dropped = @ + 1],
            Call("to_eth_request_handler.try_send", peer_id, event))

\* a delegate that counts every request the channel did not take
delegate_eth_request_counting_closed(m, peer_id, event) ==
    IF ~to_eth_request_handler.set THEN m
    ELSE IF ~to_eth_request_handler.closed /\ Len(m.eth) < EthCapacity
    THEN Do([m EXCEPT !.eth = Append(@, Item(event, peer_id, ""))],
            Call("to_eth_request_handler.try_send", peer_id, event))
    ELSE Do([m EXCEPT !.dropped = @ + 1],
            Call("metrics.total_dropped_eth_requests_at_full_capacity.increment",
                 peer_id, event))

\* NetworkManager::delegate_eth_request: try_send if configured; on Full the
\* request is dropped and the metric incremented; on Closed (the receiver is gone)
\* the request is dropped and nothing else happens
delegate_eth_request(m, peer_id, event) ==
    IF ~to_eth_request_handler.set THEN m
    ELSE IF to_eth_request_handler.closed THEN m
    ELSE IF Len(m.eth) < EthCapacity
    THEN Do([m EXCEPT !.eth = Append(@, Item(event, peer_id, ""))],
            Call("to_eth_request_handler.try_send", peer_id, event))
    ELSE Do([m EXCEPT !.dropped = @ + 1],
            Call("metrics.total_dropped_eth_requests_at_full_capacity.increment",
                 peer_id, event))

\* a handler that delegates every request to the eth-request task
on_eth_request_all_delegated(m, peer_id, req) == delegate_eth_request(m, peer_id, req)

\* NetworkManager::on_eth_request
on_eth_request(m, peer_id, req) ==
    IF req \in EthHandlerRequests
    THEN delegate_eth_request(m, peer_id, req)
    ELSE notify_tx_manager(m, peer_id, req)

\* handle.mode().is_stake()
is_stake == mode = "PoS"

\* a dispatch that announces a valid header before it updates the peer, and
\* announces the hash of a block that failed
on_block_import_result_announcing(m, outcome) ==
    CASE outcome.kind = "ValidHeader" ->
            Do(Do(m, Call("state.announce_new_block", NoPeer, "")),
               Call("state.update_peer_block", outcome.peer, ""))
      [] outcome.kind = "ValidBlock" ->
            Do(m, Call("state.announce_new_block_hash", NoPeer, ""))
      [] outcome.kind = "Err" ->
            Do(Do([m EXCEPT !.sw = apply_reputation_change(m.sw, outcome.peer, "BadBlock")],
                  Call("peers.apply_reputation_change", outcome.peer, "BadBlock")),
               Call("state.announce_new_block_hash", NoPeer, ""))

\* NetworkManager::on_block_import_result
on_block_import_result(m, outcome) ==
    CASE outcome.kind = "ValidHeader" ->
            Do(Do(m, Call("state.update_peer_block", outcome.peer, "")),
               Call("state.announce_new_block", NoPeer, ""))
      [] outcome.kind = "ValidBlock" ->
            Do(m, Call("state.announce_new_block_hash", NoPeer, ""))
      [] outcome.kind = "Err" ->
            Do([m EXCEPT !.sw = apply_reputation_change(m.sw, outcome.peer, "BadBlock")],
               Call("peers.apply_reputation_change", outcome.peer, "BadBlock"))

\* a guard that runs the closure in either mode
within_pow_always(m, peer_id, only_pow) == only_pow

\* NetworkManager::within_pow_or_disconnect
within_pow_or_disconnect(m, peer_id, only_pow) ==
    IF is_stake
    THEN Do([m EXCEPT !.sw = sessions_disconnect(m.sw, peer_id)],
            Call("sessions.disconnect", peer_id, "SubprotocolSpecific"))
    ELSE only_pow

\* a closure that starts the import before the block is recorded as seen
OnNewBlockImportFirst(m, peer_id) ==
    Do(Do([m EXCEPT !.bi[peer_id] = @ + 1],
          Call("block_import.on_new_block", peer_id, "")),
       Call("state.on_new_block", peer_id, ""))

\* on_peer_message, the closure of PeerMessage::NewBlock:
\* state.on_new_block(peer_id, block.hash), then block_import.on_new_block(peer_id, block)
OnNewBlock(m, peer_id) ==
    Do(Do([m EXCEPT !.bi[peer_id] = @ + 1],
          Call("state.on_new_block", peer_id, "")),
       Call("block_import.on_new_block", peer_id, ""))

\* NetworkManager::on_peer_message
on_peer_message(m, peer_id, msg) ==
    CASE msg = "NewBlockHashes" ->
            within_pow_or_disconnect(m, peer_id,
                Do(m, Call("state.on_new_block_hashes", peer_id, "")))
      [] msg = "NewBlock" ->
            within_pow_or_disconnect(m, peer_id, OnNewBlock(m, peer_id))
      [] msg = "PooledTransactions" ->
            notify_tx_manager(m, peer_id, "IncomingPooledTransactionHashes")
      [] msg \in PeerRequests -> on_eth_request(m, peer_id, msg)
      [] msg = "ReceivedTransaction" ->
            notify_tx_manager(m, peer_id, "IncomingTransactions")
      [] msg = "Other" -> m

\* a dispatch whose panicking arm is the one for unsupported messages
UnreachableOther(msg) == msg = "Other"

\* `PeerMessage::SendTransactions(_) => unreachable!("Not emitted by session")`
Unreachable(msg) == msg = "SendTransactions"

\* a handler that adds the peer whatever the connection state
HandleAddPeerAddressAlways(m, msg) ==
    Do([m EXCEPT !.sw = add_peer_kind(m.sw, msg.peer, msg.arg)],
       Call("state.add_peer_kind", msg.peer, msg.arg))

\* on_handle_message, NetworkHandleMessage::AddPeerAddress
HandleAddPeerAddress(m, msg) ==
    IF ~is_shutting_down(m.sw)
    THEN Do([m EXCEPT !.sw = add_peer_kind(m.sw, msg.peer, msg.arg)],
            Call("state.add_peer_kind", msg.peer, msg.arg))
    ELSE m

\* the stages of NetworkHandleMessage::Shutdown, in the order the handler runs them
ShutdownRequested(m) ==
    Do([m EXCEPT !.sw = on_shutdown_requested(m.sw)],
       Call("swarm.on_shutdown_requested", NoPeer, ""))

ShutdownDisconnectAll(m) ==
    Do([m EXCEPT !.sw = sessions_disconnect_all(m.sw)],
       Call("sessions.disconnect_all", NoPeer, "ClientQuitting"))

ShutdownDisconnectAllPending(m) ==
    Do([m EXCEPT !.sw = sessions_disconnect_all_pending(m.sw)],
       Call("sessions.disconnect_all_pending", NoPeer, ""))

\* `let _ = tx.send(())`: the result of the send is dropped
ShutdownSignalDone(m, msg) ==
    Do(m, Call("tx.send", NoPeer, IF msg.arg = "rx_alive" THEN "delivered" ELSE "failed"))

\* a handler that signals done before it disconnects
HandleShutdownDoneFirst(m, msg) ==
    ShutdownDisconnectAllPending(
        ShutdownDisconnectAll(ShutdownRequested(ShutdownSignalDone(m, msg))))

\* on_handle_message, NetworkHandleMessage::Shutdown
HandleShutdown(m, msg) ==
    ShutdownSignalDone(
        ShutdownDisconnectAllPending(ShutdownDisconnectAll(ShutdownRequested(m))), msg)

\* on_handle_message, NetworkHandleMessage::AnnounceBlock
HandleAnnounceBlock(m) ==
    IF is_stake THEN m ELSE Do(m, Call("state.announce_new_block", NoPeer, ""))

\* on_handle_message, NetworkHandleMessage::ReputationChange
HandleReputationChange(m, msg) ==
    Do([m EXCEPT !.sw = apply_reputation_change(m.sw, msg.peer, msg.arg)],
       Call("peers.apply_reputation_change", msg.peer, msg.arg))

\* the fork id of the fork schedule at a head
ForkIdAt(head) == IF head >= ForkBlock THEN 1 ELSE 0

\* SessionManager::on_status_update: the Status of future handshakes is rotated
\* to the head; the result is the fork transition, if the head crossed one
on_status_update(sw, head) == [sw EXCEPT !.head = head]

ForkTransition(sw, head) ==
    IF ForkIdAt(head) # ForkIdAt(sw.head)
    THEN [some |-> TRUE, past |-> ForkIdAt(sw.head), current |-> ForkIdAt(head)]
    ELSE [some |-> FALSE, past |-> ForkIdAt(sw.head), current |-> ForkIdAt(sw.head)]

\* NetworkState::update_fork_id
update_fork_id(sw, fork_id) == [sw EXCEPT !.fork_id = fork_id]

\* a handler that updates the fork id whatever on_status_update returned
HandleStatusUpdateAlways(m, msg) ==
    LET transition == ForkTransition(m.sw, msg.arg)
        m1 == Do([m EXCEPT !.sw = on_status_update(m.sw, msg.arg)],
                 Call("sessions.on_status_update", NoPeer, msg.arg))
    IN  Do([m1 EXCEPT !.sw = update_fork_id(m1.sw, transition.current)],
           Call("state.update_fork_id", NoPeer, transition.current))

\* on_handle_message, NetworkHandleMessage::StatusUpdate
HandleStatusUpdate(m, msg) ==
    LET transition == ForkTransition(m.sw, msg.arg)
        m1 == Do([m EXCEPT !.sw = on_status_update(m.sw, msg.arg)],
                 Call("sessions.on_status_update", NoPeer, msg.arg))
    IN  IF transition.some
        THEN Do([m1 EXCEPT !.sw = update_fork_id(m1.sw, transition.current)],
                Call("state.update_fork_id", NoPeer, transition.current))
        ELSE m1

\* PeersManager::get_reputation: Some(reputation) of a peer with a record, else None
\* (an Option is the set of what it holds)
get_reputation(sw, p) == IF p \in sw.known THEN {sw.rep[p]} ELSE {}

\* NetworkManager::status: the head of the Status the sessions hand out
status(sw) == {sw.head}

\* NetworkManager::fetch_client: a handle, which holds nothing of the manager's state
fetch_client(sw) == {}

\* SessionManager::get_peer_info: the peers of the active sessions
get_peer_info(sw) == Established(sw)

\* SessionManager::get_peer_info_by_id
get_peer_info_by_id(sw, p) == IF HasSession(sw, p) THEN {p} ELSE {}

\* `let _ = tx.send(value)`: one send, its result dropped
Reply(m, msg, value) ==
    Do(m, Call("tx.send", msg.peer,
               [value |-> value,
                rx |-> IF msg.arg = "rx_alive" THEN "delivered" ELSE "failed"]))

\* a handler that answers for the peer as if it had just been added
HandleQueryOfNewPeer(m, msg) ==
    CASE msg.kind = "GetReputationById" -> Reply(m, msg, {DEFAULT_REPUTATION})
      [] msg.kind = "FetchClient" -> Reply(m, msg, fetch_client(m.sw))
      [] msg.kind = "GetStatus" -> Reply(m, msg, status(m.sw))
      [] msg.kind = "GetPeerInfo" -> Reply(m, msg, get_peer_info(m.sw))
      [] msg.kind = "GetPeerInfoById" -> Reply(m, msg, {})

\* on_handle_message, the arms GetReputationById, FetchClient, GetStatus,
\* GetPeerInfo and GetPeerInfoById
HandleQuery(m, msg) ==
    CASE msg.kind = "GetReputationById" -> Reply(m, msg, get_reputation(m.sw, msg.peer))
      [] msg.kind = "FetchClient" -> Reply(m, msg, fetch_client(m.sw))
      [] msg.kind = "GetStatus" -> Reply(m, msg, status(m.sw))
      [] msg.kind = "GetPeerInfo" -> Reply(m, msg, get_peer_info(m.sw))
      [] msg.kind = "GetPeerInfoById" ->
            Reply(m, msg, get_peer_info_by_id(m.sw, msg.peer))

\* a handler that broadcasts PeerRemoved itself, whatever the peer set did
HandleRemovePeerAnnounced(m, msg) ==
    Do(Do([m EXCEPT !.sw = remove_peer(m.sw, msg.peer)],
          Call("state.remove_peer", msg.peer, "")),
       Call("notify.PeerRemoved", msg.peer, ""))

\* on_handle_message, NetworkHandleMessage::RemovePeer
HandleRemovePeer(m, msg) ==
    Do([m EXCEPT !.sw = remove_peer(m.sw, msg.peer)],
       Call("state.remove_peer", msg.peer, ""))

\* a handler that takes the peer off the count when it asks for the disconnect
HandleDisconnectPeerCounted(m, msg) ==
    Do([m EXCEPT !.sw = sessions_disconnect(m.sw, msg.peer),
                 !.n = IF HasSession(m.sw, msg.peer) THEN @ - 1 ELSE @],
       Call("sessions.disconnect", msg.peer, ""))

\* on_handle_message, NetworkHandleMessage::DisconnectPeer
HandleDisconnectPeer(m, msg) ==
    Do([m EXCEPT !.sw = sessions_disconnect(m.sw, msg.peer)],
       Call("sessions.disconnect", msg.peer, ""))

\* NetworkManager::on_handle_message
on_handle_message(m, msg) ==
    CASE msg.kind = "AddPeerAddress" -> HandleAddPeerAddress(m, msg)
      [] msg.kind = "RemovePeer" -> HandleRemovePeer(m, msg)
      [] msg.kind = "DisconnectPeer" -> HandleDisconnectPeer(m, msg)
      [] msg.kind = "Shutdown" -> HandleShutdown(m, msg)
      [] msg.kind = "AnnounceBlock" -> HandleAnnounceBlock(m)
      [] msg.kind = "ReputationChange" -> HandleReputationChange(m, msg)
      [] msg.kind = "StatusUpdate" -> HandleStatusUpdate(m, msg)
      [] msg.kind \in Queries -> HandleQuery(m, msg)

\* error.as_disconnected(): the reason of a disconnect, None for any other error
as_disconnected(err) == IF err = "disconnected" THEN "Some" ELSE "None"

\* usize arithmetic wraps around. The counter is 64 bits wide; the model wraps at
\* 2^30, far above every count it reaches and within 32-bit integers.
UsizeModulus == 2 ^ 30

\* a handler that does not count a new session
ActiveAfterEstablishedUncounted(n) == n

\* a handler that counts a new session twice
ActiveAfterEstablishedTwice(n) == n + 2

\* `this.num_active_peers.fetch_add(1, Ordering::Relaxed) + 1`
ActiveAfterEstablished(n) == (n + 1) % UsizeModulus

\* a handler that counts the session and tells the peer set, without the broadcast
OnSessionEstablishedUnannounced(m, e) ==
    LET m1 == [m EXCEPT !.n = ActiveAfterEstablished(@)]
    IN  IF e.arg = "in"
        THEN Do([m1 EXCEPT !.sw = on_incoming_session_established(m1.sw, e.peer)],
                Call("peers.on_incoming_session_established", e.peer, ""))
        ELSE m1

\* a handler that tells the peer set of every session, whatever its direction
OnSessionEstablishedAnyDirection(m, e) ==
    LET m1 == [m EXCEPT !.n = ActiveAfterEstablished(@)]
        m2 == Do([m1 EXCEPT !.sw = on_incoming_session_established(m1.sw, e.peer)],
                 Call("peers.on_incoming_session_established", e.peer, ""))
    IN  Do([m2 EXCEPT !.est[e.peer] = @ + 1],
           Call("notify.SessionEstablished", e.peer, ""))

\* poll, SwarmEvent::SessionEstablished
OnSessionEstablished(m, e) ==
    LET m1 == [m EXCEPT !.n = ActiveAfterEstablished(@)]
        m2 == IF e.arg = "in"
              THEN Do([m1 EXCEPT !.sw = on_incoming_session_established(m1.sw, e.peer)],
                      Call("peers.on_incoming_session_established", e.peer, ""))
              ELSE m1
    IN  Do([m2 EXCEPT !.est[e.peer] = @ + 1],
           Call("notify.SessionEstablished", e.peer, ""))

\* usize::saturating_sub
saturating_sub(a, b) == IF a > b THEN a - b ELSE 0

\* `metrics.backed_off_peers.set(peers().num_backed_off_peers().saturating_sub(1) as f64)`
SetBackedOffPeers(m) ==
    [m EXCEPT !.backed = saturating_sub(num_backed_off_peers(m.sw), 1)]

\* a handler that forgets to count a closed session
ActiveAfterClosedKept(n) == n

\* `this.num_active_peers.fetch_sub(1, Ordering::Relaxed) - 1`
ActiveAfterClosed(n) == (n - 1) % UsizeModulus

\* a handler that reports every closed session as dropped, and as gracefully
\* closed too when there was no error
OnSessionClosedAsDropped(m, e) ==
    LET m1 == [m EXCEPT !.n = ActiveAfterClosed(@)]
        m2 == Do([m1 EXCEPT !.sw = on_active_session_dropped(m1.sw, e.peer, e.arg)],
                 Call("peers.on_active_session_dropped", e.peer, e.arg))
        m3 == IF e.arg # "none" THEN m2
              ELSE Do([m2 EXCEPT !.sw = on_active_session_gracefully_closed(m2.sw, e.peer)],
                      Call("peers.on_active_session_gracefully_closed", e.peer, ""))
    IN  Do([SetBackedOffPeers(m3) EXCEPT !.est[e.peer] = @ - 1],
           Call("notify.SessionClosed", e.peer, as_disconnected(e.arg)))

\* poll, SwarmEvent::SessionClosed
OnSessionClosed(m, e) ==
    LET m1 == [m EXCEPT !.n = ActiveAfterClosed(@)]
        m2 == IF e.arg # "none"
              THEN Do([m1 EXCEPT !.sw = on_active_session_dropped(m1.sw, e.peer, e.arg)],
                      Call("peers.on_active_session_dropped", e.peer, e.arg))
              ELSE Do([m1 EXCEPT !.sw = on_active_session_gracefully_closed(m1.sw, e.peer)],
                      Call("peers.on_active_session_gracefully_closed", e.peer, ""))
        reason == IF e.arg # "none" THEN as_disconnected(e.arg) ELSE "None"
    IN  Do([SetBackedOffPeers(m2) EXCEPT !.est[e.peer] = @ - 1],
           Call("notify.SessionClosed", e.peer, reason))

\* a handler that leaves the gauge as it was
OnPeerAddedGaugeKept(m, e) == Do(m, Call("notify.PeerAdded", e.peer, ""))

\* poll, SwarmEvent::PeerAdded: the broadcast, then
\* metrics.tracked_peers.set(num_known_peers())
OnPeerAdded(m, e) ==
    [Do(m, Call("notify.PeerAdded", e.peer, "")) EXCEPT !.tracked = num_known_peers(m.sw)]

\* poll, SwarmEvent::PeerRemoved
OnPeerRemoved(m, e) ==
    [Do(m, Call("notify.PeerRemoved", e.peer, "")) EXCEPT !.tracked = num_known_peers(m.sw)]

\* a hook that takes an unexpected message for a bad message
on_invalid_message_as_bad_message(m, peer_id) ==
    Do([m EXCEPT !.sw = apply_reputation_change(m.sw, peer_id, "BadMessage")],
       Call("peers.apply_reputation_change", peer_id, "BadMessage"))

\* NetworkManager::on_invalid_message
on_invalid_message(m, peer_id) ==
    Do([m EXCEPT !.sw = apply_reputation_change(m.sw, peer_id, "BadProtocol")],
       Call("peers.apply_reputation_change", peer_id, "BadProtocol"))

\* poll, SwarmEvent::BadMessage
OnBadMessage(m, peer_id) ==
    Do([m EXCEPT !.sw = apply_reputation_change(m.sw, peer_id, "BadMessage")],
       Call("peers.apply_reputation_change", peer_id, "BadMessage"))

\* a handler that takes the failure for the close of a pending session
OnOutgoingConnectionErrorAsPendingClosed(m, e) ==
    SetBackedOffPeers(Do(m, Call("peers.on_pending_session_dropped", e.peer, e.arg)))

\* poll, SwarmEvent::OutgoingConnectionError
OnOutgoingConnectionError(m, e) ==
    SetBackedOffPeers(
        Do([m EXCEPT !.sw = on_outgoing_connection_failure(m.sw, e.peer, e.arg)],
           Call("peers.on_outgoing_connection_failure", e.peer, e.arg)))

\* poll, the match on the SwarmEvent
on_swarm_event(m, e) ==
    CASE e.kind = "ValidMessage" -> on_peer_message(m, e.peer, e.arg)
      [] e.kind \in {"TcpListenerClosed", "TcpListenerError",
                     "IncomingTcpConnection", "OutgoingTcpConnection"} -> m
      [] e.kind = "SessionEstablished" -> OnSessionEstablished(m, e)
      [] e.kind = "PeerAdded" -> OnPeerAdded(m, e)
      [] e.kind = "PeerRemoved" -> OnPeerRemoved(m, e)
      [] e.kind = "SessionClosed" -> OnSessionClosed(m, e)
      [] e.kind = "IncomingPendingSessionClosed" ->
            SetBackedOffPeers(
                IF e.arg # "none"
                THEN Do(m, Call("peers.on_incoming_pending_session_dropped", NoPeer, e.arg))
                ELSE Do(m, Call("peers.on_incoming_pending_session_gracefully_closed",
                                NoPeer, "")))
      [] e.kind = "OutgoingPendingSessionClosed" ->
            SetBackedOffPeers(
                IF e.arg # "none"
                THEN Do(m, Call("peers.on_pending_session_dropped", e.peer, e.arg))
                ELSE Do(m, Call("peers.on_pending_session_gracefully_closed", e.peer, "")))
      [] e.kind = "OutgoingConnectionError" -> OnOutgoingConnectionError(m, e)
      [] e.kind = "InvalidCapabilityMessage" -> on_invalid_message(m, e.peer)
      [] e.kind = "BadMessage" -> OnBadMessage(m, e.peer)
      [] e.kind = "ProtocolBreach" ->
            Do([m EXCEPT !.sw = apply_reputation_change(m.sw, e.peer, "BadProtocol")],
               Call("peers.apply_reputation_change", e.peer, "BadProtocol"))

\* ------------------------------------------------------------------ poll
\* phase x has handled an item: runs of one phase are noted once
Note(ph, x) == IF ph # <<>> /\ ph[Len(ph)] = x THEN ph ELSE Append(ph, x)

\* the executor polls the manager once its waker has fired
Wake ==
    /\ pc = "idle"
    /\ woken
    /\ pc' = "import"
    /\ woken' = FALSE
    /\ last' = NoItem
    /\ phases' = <<>>
    /\ handled' = 0
    /\ carried' = Len(from_handle_rx)
    /\ calls' = <<>>
    /\ observed' = {}
    /\ UNCHANGED <<budget, num_active_peers, from_handle_rx, chanClosed, mode, swarm,
                   block_import, selfWoke, estOpen, enq>>
    /\ UNCHANGED <<outs, outcomes>>

\* `while let Poll::Ready(outcome) = this.block_import.poll(cx)`
PollImportReady(outcome) ==
    /\ pc = "import"
    /\ block_import[outcome.peer] > 0
    /\ Commit(on_block_import_result(
                [Mgr(swarm) EXCEPT !.bi[outcome.peer] = @ - 1], outcome))
    /\ last' = outcome
    /\ phases' = Note(phases, "import")
    /\ UNCHANGED <<pc, budget, woken, from_handle_rx, chanClosed, mode, handled, selfWoke,
                   carried, enq, outcomes>>

\* block_import.poll yields an outcome for a block this manager did not hand over:
\* the collaborator is a `Box<dyn BlockImport>` and its poll decides what it yields
PollImportUnprompted(outcome) ==
    /\ pc = "import"
    /\ block_import[outcome.peer] = 0
    /\ Commit(on_block_import_result(Mgr(swarm), outcome))
    /\ last' = outcome
    /\ phases' = Note(phases, "import")
    /\ UNCHANGED <<pc, budget, woken, from_handle_rx, chanClosed, mode, handled, selfWoke,
                   carried, enq, outcomes>>

\* block_import.poll yields an outcome it had ready
PollImportOutcome(outcome) ==
    /\ pc = "import"
    /\ outcomes[outcome.peer] > 0
    /\ Commit(on_block_import_result(Mgr(swarm), outcome))
    /\ outcomes' = [outcomes EXCEPT ![outcome.peer] = @ - 1]
    /\ last' = outcome
    /\ phases' = Note(phases, "import")
    /\ UNCHANGED <<pc, budget, woken, from_handle_rx, chanClosed, mode, handled, selfWoke,
                   carried, enq>>

\* a poll that goes on to the command loop without asking block import again
PollImportSkipped ==
    /\ pc = "import"
    /\ pc' = "commands"
    /\ calls' = <<>>
    /\ last' = NoItem
    /\ UNCHANGED <<budget, woken, num_active_peers, from_handle_rx, chanClosed, mode,
                   swarm, block_import, handled, selfWoke, carried, estOpen, enq, phases>>
    /\ UNCHANGED <<outs, outcomes, observed>>

\* block_import.poll returns Pending, which it does only when it has no outcome
\* ready, and keeps the waker: on to the command loop
PollImportPending ==
    /\ pc = "import"
    /\ \A p \in Peers : outcomes[p] = 0
    /\ pc' = "commands"
    /\ observed' = observed \cup {"import"}
    /\ calls' = <<>>
    /\ last' = NoItem
    /\ UNCHANGED <<budget, woken, num_active_peers, from_handle_rx, chanClosed, mode,
                   swarm, block_import, handled, selfWoke, carried, estOpen, enq, phases>>
    /\ UNCHANGED <<outs, outcomes>>

\* a command loop that takes the command sent last
PollCommandNewestFirst ==
    /\ pc = "commands"
    /\ from_handle_rx # <<>>
    /\ from_handle_rx' = SubSeq(from_handle_rx, 1, Len(from_handle_rx) - 1)
    /\ Commit(on_handle_message(Mgr(swarm), from_handle_rx[Len(from_handle_rx)]))
    /\ last' = from_handle_rx[Len(from_handle_rx)]
    /\ phases' = Note(phases, "command")
    /\ carried' = IF carried > 0 THEN carried - 1 ELSE 0
    /\ UNCHANGED <<pc, budget, woken, chanClosed, mode, handled, selfWoke, enq,
                   outcomes>>

\* from_handle_rx yields Ready(Some(msg))
PollCommand ==
    /\ pc = "commands"
    /\ from_handle_rx # <<>>
    /\ from_handle_rx' = Tail(from_handle_rx)
    /\ Commit(on_handle_message(Mgr(swarm), Head(from_handle_rx)))
    /\ last' = Head(from_handle_rx)
    /\ phases' = Note(phases, "command")
    /\ carried' = IF carried > 0 THEN carried - 1 ELSE 0
    /\ UNCHANGED <<pc, budget, woken, chanClosed, mode, handled, selfWoke, enq,
                   outcomes>>

\* from_handle_rx yields Pending: on to the swarm loop, `let mut budget = 1024`
PollCommandPending ==
    /\ pc = "commands"
    /\ from_handle_rx = <<>>
    /\ ~chanClosed
    /\ pc' = "swarm"
    /\ budget' = BUDGET
    /\ selfWoke' = FALSE
    /\ observed' = observed \cup {"commands"}
    /\ calls' = <<>>
    /\ last' = NoItem
    /\ UNCHANGED <<woken, num_active_peers, from_handle_rx, chanClosed, mode, swarm,
                   block_import, handled, carried, estOpen, enq, phases>>
    /\ UNCHANGED <<outs, outcomes>>

\* a command loop that returns Ready as soon as the channel is empty
PollCommandClosedOnEmpty ==
    /\ pc = "commands"
    /\ from_handle_rx = <<>>
    /\ pc' = "done"
    /\ calls' = <<>>
    /\ last' = NoItem
    /\ UNCHANGED <<budget, woken, num_active_peers, from_handle_rx, chanClosed, mode,
                   swarm, block_import, handled, selfWoke, carried, estOpen, enq, phases>>
    /\ UNCHANGED <<outs, outcomes, observed>>

\* from_handle_rx yields Ready(None): `return Poll::Ready(())`
PollCommandClosed ==
    /\ pc = "commands"
    /\ from_handle_rx = <<>>
    /\ chanClosed
    /\ pc' = "done"
    /\ calls' = <<>>
    /\ last' = NoItem
    /\ UNCHANGED <<budget, woken, num_active_peers, from_handle_rx, chanClosed, mode,
                   swarm, block_import, handled, selfWoke, carried, estOpen, enq, phases>>
    /\ UNCHANGED <<outs, outcomes, observed>>

\* a loop that yields one event early
BudgetExhaustedEarly(b) == b = 1

\* a loop that never yields
BudgetExhaustedNever(b) == FALSE

\* the budget is exhausted: `if budget == 0`
BudgetExhausted(b) == b = 0

\* one loop over commands and events: the command channel is polled again after an event
SwarmLoopNextMerged(b) == IF b = 0 THEN "idle" ELSE "commands"

\* after an event: `break` out of the swarm loop to `Poll::Pending`, or its next iteration
SwarmLoopNext(b) == IF BudgetExhausted(b) THEN "idle" ELSE "swarm"

\* swarm.poll_next yields Ready(Some(event)): handle it, then `budget -= 1`
PollSwarmEvent(e) ==
    /\ pc = "swarm"
    /\ SwarmCanYield(swarm, e)
    /\ ~(e.kind = "ValidMessage" /\ Unreachable(e.arg))
    /\ Commit(on_swarm_event(Mgr(SwarmAfterYield(swarm, e)), e))
    /\ last' = e
    /\ phases' = Note(phases, "swarm")
    /\ handled' = handled + 1
    /\ budget' = budget - 1
    /\ pc' = SwarmLoopNext(budget')
    /\ IF BudgetExhausted(budget')
       THEN woken' = TRUE /\ selfWoke' = TRUE
       ELSE UNCHANGED <<woken, selfWoke>>
    /\ UNCHANGED <<from_handle_rx, chanClosed, mode, carried, enq, outcomes>>

\* swarm.poll_next yields a ValidMessage that on_peer_message takes for unreachable:
\* the handler panics and poll does not return
PollSwarmPanic(e) ==
    /\ pc = "swarm"
    /\ e.kind = "ValidMessage"
    /\ HasSession(swarm, e.peer)
    /\ Unreachable(e.arg)
    /\ pc' = "panicked"
    /\ last' = e
    /\ calls' = <<>>
    /\ UNCHANGED <<budget, woken, num_active_peers, from_handle_rx, chanClosed, mode,
                   swarm, block_import, handled, selfWoke, carried, estOpen, enq, phases>>
    /\ UNCHANGED <<outs, outcomes, observed>>

\* inside swarm.poll_next: a handshake completes for a peer that has a session;
\* the session manager drops the newer one and yields no event
PollSwarmAlreadyConnected(p, d) ==
    /\ pc = "swarm"
    /\ HasPending(swarm, p, d)
    /\ ~SessionAccepted(swarm, p)
    /\ swarm' = DropPending(swarm, p, d)
    /\ calls' = <<Call("sessions.reject_already_connected", p, d)>>
    /\ last' = NoItem
    /\ UNCHANGED <<pc, budget, woken, num_active_peers, from_handle_rx, chanClosed, mode,
                   block_import, handled, selfWoke, carried, estOpen, enq, phases>>
    /\ UNCHANGED <<outs, outcomes, observed>>

\* inside swarm.poll_next: the backoff window of a peer has ended; the peer set
\* releases the peer and yields no event
PollSwarmBackoffElapsed(p) ==
    /\ pc = "swarm"
    /\ is_backed_off(swarm, p)
    /\ swarm' = backoff_elapsed(swarm, p)
    /\ calls' = <<>>
    /\ last' = NoItem
    /\ UNCHANGED <<pc, budget, woken, num_active_peers, from_handle_rx, chanClosed, mode,
                   block_import, handled, selfWoke, carried, estOpen, enq, phases>>
    /\ UNCHANGED <<outs, outcomes, observed>>

\* a swarm loop that ends the future when the swarm has nothing more
PollSwarmPendingEnds ==
    /\ pc = "swarm"
    /\ pc' = "done"
    /\ calls' = <<>>
    /\ last' = NoItem
    /\ phases' = <<>>
    /\ UNCHANGED <<budget, woken, num_active_peers, from_handle_rx, chanClosed, mode,
                   swarm, block_import, handled, selfWoke, carried, estOpen, enq>>
    /\ UNCHANGED <<outs, outcomes, observed>>

\* swarm.poll_next yields Pending or Ready(None): `break`, then `Poll::Pending`
PollSwarmPending ==
    /\ pc = "swarm"
    /\ pc' = "idle"
    /\ observed' = observed \cup {"swarm"}
    /\ calls' = <<>>
    /\ last' = NoItem
    /\ phases' = <<>>
    /\ UNCHANGED <<budget, woken, num_active_peers, from_handle_rx, chanClosed, mode,
                   swarm, block_import, handled, selfWoke, carried, estOpen, enq>>
    /\ UNCHANGED <<outs, outcomes>>

\* ------------------------------------------------------- the environment
\* a source fires the waker it was left with, if it was left one in this wakeup
Fires(source) == woken \/ source \in observed

\* a NetworkHandle sends a command; the channel wakes the manager
SendCommand(c) ==
    /\ pc # "done"
    /\ ~chanClosed
    /\ enq < MaxCmds
    /\ from_handle_rx' = Append(from_handle_rx, c)
    /\ enq' = enq + 1
    /\ woken' = Fires("commands")
    /\ last' = NoItem
    /\ calls' = <<>>
    /\ UNCHANGED <<pc, budget, num_active_peers, chanClosed, mode, swarm, block_import,
                   handled, selfWoke, carried, estOpen, phases>>
    /\ UNCHANGED <<outs, outcomes, observed>>

\* the command channel is closed deliberately
CloseChannel ==
    /\ pc # "done"
    /\ ~chanClosed
    /\ chanClosed' = TRUE
    /\ woken' = Fires("commands")
    /\ last' = NoItem
    /\ calls' = <<>>
    /\ UNCHANGED <<pc, budget, num_active_peers, from_handle_rx, mode, swarm, block_import,
                   handled, selfWoke, carried, estOpen, enq, phases>>
    /\ UNCHANGED <<outs, outcomes, observed>>

\* the eth-request task receives the oldest request of its channel
EthHandlerRecv ==
    /\ pc \notin {"done", "panicked"}
    /\ ~to_eth_request_handler.closed
    /\ to_eth_request_handler.buf # <<>>
    /\ to_eth_request_handler' = [to_eth_request_handler EXCEPT !.buf = Tail(@)]
    /\ last' = NoItem
    /\ calls' = <<>>
    /\ UNCHANGED <<pc, budget, woken, num_active_peers, from_handle_rx, chanClosed, mode,
                   swarm, block_import, handled, selfWoke, carried, estOpen, enq, phases,
                   to_transactions_manager, metrics, tracked_peers, backed_off_peers,
                   outcomes, observed, propagation>>

\* the eth-request task goes away: the receiver of its channel is dropped, and
\* what the channel still held with it
EthHandlerDropped ==
    /\ pc \notin {"done", "panicked"}
    /\ to_eth_request_handler.set
    /\ ~to_eth_request_handler.closed
    /\ to_eth_request_handler' =
          [to_eth_request_handler EXCEPT !.closed = TRUE, !.buf = <<>>]
    /\ last' = NoItem
    /\ calls' = <<>>
    /\ UNCHANGED <<pc, budget, woken, num_active_peers, from_handle_rx, chanClosed, mode,
                   swarm, block_import, handled, selfWoke, carried, estOpen, enq, phases,
                   to_transactions_manager, metrics, tracked_peers, backed_off_peers,
                   outcomes, observed, propagation>>

\* block import finishes the validation of a block of peer p: the outcome is ready
\* to be yielded, and block import fires the waker
BlockImportReady(p) ==
    /\ pc \notin {"done", "panicked"}
    /\ block_import[p] > 0
    /\ block_import' = [block_import EXCEPT ![p] = @ - 1]
    /\ outcomes' = [outcomes EXCEPT ![p] = @ + 1]
    /\ woken' = Fires("import")
    /\ last' = NoItem
    /\ calls' = <<>>
    /\ UNCHANGED <<pc, budget, num_active_peers, from_handle_rx, chanClosed, mode, swarm,
                   handled, selfWoke, carried, estOpen, enq, phases, observed>>
    /\ UNCHANGED outs

\* a session, the listener, discovery or the block import becomes ready and wakes the
\* manager (a wake that arrives during a poll is seen when the poll has returned)
ExternalWake ==
    /\ pc = "idle"
    /\ ~woken
    /\ woken' = TRUE
    /\ last' = NoItem
    /\ calls' = <<>>
    /\ UNCHANGED <<pc, budget, num_active_peers, from_handle_rx, chanClosed, mode, swarm,
                   block_import, handled, selfWoke, carried, estOpen, enq, phases>>
    /\ UNCHANGED <<outs, outcomes, observed>>

\* ------------------------------------------------------- block propagation
\* NetworkState keeps, for each active peer, the blocks the peer has seen, and queues
\* the announces. The model follows one block:
\*   active      peers with a session
\*   seen        active peers recorded as having seen the block
\*   full        active peers a NewBlock with the block is queued for
\*   hashes      active peers a NewBlockHashes with its hash is queued for
\*   importing   peers whose NewBlock is with the block import
ActivePeers == 1..MaxActivePeers

PropagationNew ==
    [active |-> {}, seen |-> {}, full |-> {}, hashes |-> {}, importing |-> {}]

Min(a, b) == IF a <= b THEN a ELSE b

\* the least k with k * k >= n
CeilSqrt(n) == CHOOSE k \in 0..n : k * k >= n /\ \A j \in 0..n : j * j >= n => k <= j

\* NetworkState::on_session_activated / on_session_closed: the peer's entry is made
\* and dropped with its session
on_session_activated(st, p) == [st EXCEPT !.active = @ \cup {p}]

on_session_closed(st, p) ==
    [st EXCEPT !.active = @ \ {p}, !.seen = @ \ {p}, !.full = @ \ {p}, !.hashes = @ \ {p}]

\* NetworkState::on_new_block, on_new_block_hashes: the peer has seen the block
peer_has_seen(st, p) == IF p \in st.active THEN [st EXCEPT !.seen = @ \cup {p}] ELSE st

\* a sample of every active peer that has not seen the block
SamplesEveryUnseen(st) == {st.active \ st.seen}

\* the samples announce_new_block may take: active peers that have not seen the
\* block, as many as the square-root sample asks for if there are that many
Samples(st) ==
    {T \in SUBSET (st.active \ st.seen) :
        Cardinality(T) = Min(CeilSqrt(Cardinality(st.active)),
                             Cardinality(st.active \ st.seen))}

\* NetworkState::announce_new_block, with the sample T
announce_new_block(st, T) == [st EXCEPT !.full = @ \cup T, !.seen = @ \cup T]

\* NetworkState::announce_new_block_hash: the active peers that have not seen the block
announce_new_block_hash(st) ==
    [st EXCEPT !.hashes = @ \cup (st.active \ st.seen), !.seen = st.active]

\* what a call of the manager does to the propagation state
ApplyCall(st, c, T) ==
    CASE c.op = "state.announce_new_block" -> announce_new_block(st, T)
      [] c.op = "state.announce_new_block_hash" -> announce_new_block_hash(st)
      [] c.op \in {"state.on_new_block", "state.on_new_block_hashes"} ->
            peer_has_seen(st, c.peer)
      [] OTHER -> st

RECURSIVE ApplyCalls(_, _, _)
ApplyCalls(st, cs, T) ==
    IF cs = <<>> THEN st ELSE ApplyCalls(ApplyCall(st, Head(cs), T), Tail(cs), T)

\* a step of the propagation state: the item handled and the calls made are recorded
PropagationStep(st, item, cs) ==
    /\ propagation' = st
    /\ last' = item
    /\ calls' = cs
    /\ UNCHANGED <<pc, budget, woken, num_active_peers, from_handle_rx, chanClosed, mode,
                   swarm, block_import, phases, handled, selfWoke, carried, estOpen, enq,
                   to_eth_request_handler, to_transactions_manager, metrics,
                   tracked_peers, backed_off_peers, outcomes, observed>>

\* a session with peer p is established
PropagateSessionEstablished(p) ==
    /\ p \notin propagation.active
    /\ PropagationStep(on_session_activated(propagation, p),
                       Item("SessionEstablished", p, "out"), <<>>)

\* the session with peer p is closed
PropagateSessionClosed(p) ==
    /\ p \in propagation.active
    /\ PropagationStep(on_session_closed(propagation, p),
                       Item("SessionClosed", p, "none"), <<>>)

\* on_peer_message, PeerMessage::NewBlock in PoW: the block is recorded as seen by
\* the peer and handed to the block import
PropagatePeerNewBlock(p) ==
    /\ p \in propagation.active
    /\ propagation.importing = {}
    /\ LET cs == <<Call("state.on_new_block", p, ""),
                   Call("block_import.on_new_block", p, "")>>
           st == ApplyCalls(propagation, cs, {})
       IN  PropagationStep([st EXCEPT !.importing = @ \cup {p}],
                           Item("ValidMessage", p, "NewBlock"), cs)

\* on_peer_message, PeerMessage::NewBlockHashes in PoW
PropagatePeerNewBlockHashes(p) ==
    /\ p \in propagation.active
    /\ LET cs == <<Call("state.on_new_block_hashes", p, "")>>
       IN  PropagationStep(ApplyCalls(propagation, cs, {}),
                           Item("ValidMessage", p, "NewBlockHashes"), cs)

\* the block import yields the header of the block, then the block: the calls of
\* on_block_import_result, applied to the propagation state
PropagateImportResult(o) ==
    /\ o.peer \in propagation.importing
    /\ LET cs == on_block_import_result(Mgr(swarm), o).calls
       IN  \E T \in Samples(propagation) :
              PropagationStep(
                  [ApplyCalls(propagation, cs, T)
                      EXCEPT !.importing = IF o.kind = "ValidBlock" THEN @ \ {o.peer} ELSE @],
                  o, cs)

\* ------------------------------------------------------- specifications
\* NetworkManager::new; the executor polls a spawned task once
InitWith(network_mode, eth_set, txm_set, max_active) ==
    /\ pc = "idle"
    /\ budget = BUDGET
    /\ woken = TRUE
    /\ num_active_peers = 0
    /\ from_handle_rx = <<>>
    /\ chanClosed = FALSE
    /\ mode = network_mode
    /\ swarm = [SwarmNew EXCEPT !.max_active = max_active]
    /\ block_import = [p \in Peers |-> 0]
    /\ calls = <<>>
    /\ last = NoItem
    /\ phases = <<>>
    /\ handled = 0
    /\ selfWoke = FALSE
    /\ carried = 0
    /\ estOpen = [p \in Peers |-> 0]
    /\ enq = 0
    /\ to_eth_request_handler = [set |-> eth_set, buf |-> <<>>, closed |-> FALSE]
    /\ to_transactions_manager = txm_set
    /\ metrics = 0
    /\ tracked_peers = 0
    /\ backed_off_peers = 0
    /\ outcomes = [p \in Peers |-> 0]
    /\ observed = {}
    /\ propagation = PropagationNew

\* proof-of-work mode, neither outbound channel set
Init == InitWith("PoW", FALSE, FALSE, NumPeers)

\* Spec: the session life cycle, shutdown and the peer set, in proof-of-work mode.
\* Commands are sent and the channel is closed between wakeups, and the swarm
\* yields at most MaxBurst events in a wakeup.
SpecCommands ==
    {c \in Commands : c.kind = "Shutdown" \/ (c.kind = "AddPeerAddress" /\ c.arg = "Static")}

\* the outcomes of an import that found the block valid
ValidOutcomes == {o \in ImportOutcomes : o.kind # "Err"}

SpecEvents ==
    {e \in SwarmEvents :
        \/ e.kind \in {"TcpListenerError", "TcpListenerClosed", "IncomingTcpConnection",
                       "OutgoingTcpConnection", "SessionEstablished", "PeerAdded"}
        \/ e.kind = "ValidMessage" /\ e.arg = "NewBlock"
        \/ e.kind = "SessionClosed" /\ e.arg = "none"
        \/ e.kind \in {"IncomingPendingSessionClosed", "OutgoingPendingSessionClosed"}
           /\ e.arg = "io"}

Next ==
    \/ Wake
    \/ \E o \in ValidOutcomes : PollImportReady(o)
    \/ PollImportPending
    \/ PollCommand
    \/ PollCommandPending
    \/ PollCommandClosed
    \/ \E e \in SpecEvents : handled < MaxBurst /\ PollSwarmEvent(e)
    \/ \E p \in Peers, d \in Dirs : PollSwarmAlreadyConnected(p, d)
    \/ PollSwarmPending
    \/ \E c \in SpecCommands : pc = "idle" /\ SendCommand(c)
    \/ pc = "idle" /\ CloseChannel
    \/ ExternalWake

Spec == Init /\ [][Next]_vars

\* PhaseSpec: one inbound peer whose blocks are imported, with commands sent at
\* any point of a wakeup.
PhaseCommands == {Item("AddPeerAddress", 1, "Static"), Item("Shutdown", NoPeer, "rx_alive")}

PhaseEvents ==
    {Item("IncomingTcpConnection", NoPeer, ""), Item("SessionEstablished", 1, "in"),
     Item("ValidMessage", 1, "NewBlock"), Item("SessionClosed", 1, "none"),
     Item("TcpListenerError", NoPeer, "")}

PhaseNext ==
    \/ Wake
    \/ \E o \in ImportOutcomes : PollImportReady(o)
    \/ PollImportPending
    \/ PollCommand
    \/ PollCommandPending
    \/ \E e \in PhaseEvents : handled < MaxBurst /\ PollSwarmEvent(e)
    \/ PollSwarmPending
    \/ \E c \in PhaseCommands : SendCommand(c)
    \/ ExternalWake

PhaseSpec == Init /\ [][PhaseNext]_vars

\* LoadSpec: the listener fails again and again, so that the swarm has an event
\* for every poll that asks, while commands are sent at any point of a wakeup.
\* The executor polls the manager whenever its waker has fired, and a poll runs
\* to its return.
LoadCommands == {Item("DisconnectPeer", 1, ""), Item("AddPeerAddress", 1, "Static")}

LoadEvents == {Item("TcpListenerError", NoPeer, "")}

LoadPoll ==
    \/ Wake
    \/ PollImportPending
    \/ PollCommand
    \/ PollCommandPending
    \/ \E e \in LoadEvents : PollSwarmEvent(e)
    \/ PollSwarmPending

LoadNext ==
    \/ LoadPoll
    \/ \E c \in LoadCommands : SendCommand(c)
    \/ ExternalWake

LoadSpec == Init /\ [][LoadNext]_vars /\ WF_vars(LoadPoll)

\* WakeSpec: a session hands blocks to block import, which finishes their validation
\* at any point, during a wakeup or between two; commands are sent at any point.
\* The executor polls the manager whenever its waker has fired, and a poll runs to
\* its return.
WakeEvents ==
    {Item("IncomingTcpConnection", NoPeer, ""), Item("SessionEstablished", 1, "in"),
     Item("ValidMessage", 1, "NewBlock")}

WakePoll ==
    \/ Wake
    \/ \E o \in {i \in ImportOutcomes : i.peer = 1} : PollImportOutcome(o)
    \/ PollImportPending
    \/ PollCommand
    \/ PollCommandPending
    \/ \E e \in WakeEvents :
          /\ handled < MaxBurst
          /\ e.arg = "NewBlock" => SumOver(outcomes, Peers) = 0
          /\ PollSwarmEvent(e)
    \/ PollSwarmPending

WakeNext ==
    \/ WakePoll
    \/ BlockImportReady(1)
    \/ \E c \in {Item("AddPeerAddress", 1, "Static"), Item("DisconnectPeer", 1, "")} :
          SendCommand(c)
    \/ ExternalWake

WakeSpec == Init /\ [][WakeNext]_vars /\ WF_vars(WakePoll)

\* DispatchSpec: inbound sessions whose messages, requests and closes are
\* dispatched, in either network mode and with the outbound channels both set
\* (set_transactions, set_eth_request_handler) or both left unset; the block
\* import may yield outcomes of its own; a session may deliver any PeerMessage,
\* the one it is not to pass on included; AnnounceBlock is sent between wakeups.
DispatchInit ==
    \E network_mode \in {"PoW", "PoS"}, tasks_set \in BOOLEAN :
        InitWith(network_mode, tasks_set, tasks_set, NumPeers)

DispatchCommands == {Item("AnnounceBlock", NoPeer, "")}

DispatchEvents ==
    {Item("IncomingTcpConnection", NoPeer, "")}
    \cup {Item("SessionEstablished", p, "in") : p \in Peers}
    \cup {Item("ValidMessage", 1, m) : m \in SessionEmits}
    \cup {Item("ValidMessage", 2, "NewBlockHashes")}
    \cup {Item("SessionClosed", 1, e) : e \in CloseErrors}

DispatchNext ==
    \/ Wake
    \/ \E o \in ImportOutcomes : PollImportReady(o)
    \/ \E o \in ValidOutcomes : PollImportUnprompted(o)
    \/ PollImportPending
    \/ PollCommand
    \/ PollCommandPending
    \/ \E e \in DispatchEvents :
          /\ handled < MaxBurst
          /\ e.arg \in EthHandlerRequests => metrics < MaxDropped
          /\ PollSwarmEvent(e)
    \/ \E p \in Peers, m \in PeerMessages : PollSwarmPanic(Item("ValidMessage", p, m))
    \/ PollSwarmPending
    \/ \E c \in DispatchCommands : pc = "idle" /\ SendCommand(c)
    \/ EthHandlerRecv
    \/ ExternalWake

DispatchSpec == DispatchInit /\ [][DispatchNext]_vars

\* PeerSetSpec: a trusted and a static peer are added, removed and dialled while
\* fewer than MaxActive peers are active; their sessions misbehave, fail and drop,
\* reputation changes are commanded, the status is updated, and backoff windows
\* run out. Commands are sent between wakeups.
PeerSetInit == InitWith("PoW", FALSE, FALSE, MaxActive)

PeerSetCommands ==
    {Item("AddPeerAddress", 1, "Trusted"), Item("AddPeerAddress", 2, "Static")}
    \cup {Item("RemovePeer", p, "") : p \in Peers}
    \cup {Item("ReputationChange", p, k) : p \in Peers, k \in {"BadProtocol", "Timeout", "Reset"}}
    \cup {Item("StatusUpdate", NoPeer, h) : h \in Heads}
    \cup {Item("Shutdown", NoPeer, "rx_alive")}

PeerSetEvents ==
    {Item(k, p, "") : k \in {"OutgoingTcpConnection", "PeerAdded", "PeerRemoved",
                             "InvalidCapabilityMessage", "BadMessage", "ProtocolBreach"},
                     p \in Peers}
    \cup {Item("SessionEstablished", p, "out") : p \in Peers}
    \cup {Item("SessionClosed", p, e) : p \in Peers, e \in {"none", "io"}}
    \cup {Item("OutgoingConnectionError", p, "io") : p \in Peers}
    \cup {Item("ValidMessage", 2, "NewBlock")}

PeerSetNext ==
    \/ Wake
    \/ \E o \in ImportOutcomes : PollImportReady(o)
    \/ PollImportPending
    \/ PollCommand
    \/ PollCommandPending
    \/ \E e \in PeerSetEvents : handled < MaxBurst /\ PollSwarmEvent(e)
    \/ \E p \in Peers : PollSwarmBackoffElapsed(p)
    \/ PollSwarmPending
    \/ \E c \in PeerSetCommands : pc = "idle" /\ SendCommand(c)
    \/ ExternalWake

PeerSetSpec == PeerSetInit /\ [][PeerSetNext]_vars

\* The snapshot queries, next to the commands and events that change what they
\* report: a peer is added, dialled, connected, penalised; the head moves.
QueryCommands ==
    {c \in Commands : c.kind \in Queries /\ c.peer # 1}
    \cup {Item("AddPeerAddress", 2, "Static"), Item("StatusUpdate", NoPeer, MaxHead)}

QueryEvents ==
    {Item("OutgoingTcpConnection", 2, ""), Item("SessionEstablished", 2, "out"),
     Item("SessionClosed", 2, "none"), Item("BadMessage", 2, "")}

QueryNext ==
    \/ Wake
    \/ PollImportPending
    \/ PollCommand
    \/ PollCommandPending
    \/ \E e \in QueryEvents : handled < MaxBurst /\ PollSwarmEvent(e)
    \/ PollSwarmPending
    \/ \E c \in QueryCommands : pc = "idle" /\ SendCommand(c)
    \/ ExternalWake

QuerySpec == Init /\ [][QueryNext]_vars

\* Every kind of command, swarm event and import outcome, for one peer: what a
\* handler leaves alone.
FrameCommands ==
    {c \in Commands :
        /\ c.peer \in {NoPeer, NumPeers}
        /\ IF c.kind = "StatusUpdate" THEN c.arg = MaxHead
           ELSE /\ c.arg \notin {"rx_dropped", "Trusted"}
                /\ c.kind = "ReputationChange" => c.arg = "BadProtocol"}

FrameEvents ==
    {e \in SwarmEvents :
        /\ e.peer \in {NoPeer, NumPeers}
        /\ e.kind = "ValidMessage" => e.arg \in {"NewBlock", "GetBlockHeaders"}
        /\ e.arg # "disconnected"}

FrameNext ==
    \/ Wake
    \/ \E o \in {i \in ImportOutcomes : i.peer = NumPeers} : PollImportReady(o)
    \/ PollImportPending
    \/ PollCommand
    \/ PollCommandPending
    \/ \E e \in FrameEvents : handled < MaxBurst /\ PollSwarmEvent(e)
    \/ \E d \in Dirs : PollSwarmAlreadyConnected(NumPeers, d)
    \/ PollSwarmBackoffElapsed(NumPeers)
    \/ PollSwarmPending
    \/ \E c \in FrameCommands : pc = "idle" /\ SendCommand(c)
    \/ ExternalWake

FrameSpec == Init /\ [][FrameNext]_vars

\* Requests of one peer for the eth-request task: the task configured or not, its
\* channel with room, full, or without its receiver.
EthInit == \E eth_set \in BOOLEAN : InitWith("PoW", eth_set, FALSE, NumPeers)

EthEvents ==
    {Item("IncomingTcpConnection", NoPeer, ""), Item("SessionEstablished", 1, "in"),
     Item("SessionClosed", 1, "none")}
    \cup {Item("ValidMessage", 1, r) : r \in {"GetBlockHeaders", "GetReceipts"}}

EthNext ==
    \/ Wake
    \/ PollImportPending
    \/ PollCommandPending
    \/ \E e \in EthEvents :
          /\ handled < MaxBurst
          /\ e.arg \in EthHandlerRequests /\ Len(to_eth_request_handler.buf) = EthCapacity
                => metrics < MaxDropped
          /\ PollSwarmEvent(e)
    \/ PollSwarmPending
    \/ EthHandlerRecv
    \/ EthHandlerDropped
    \/ ExternalWake

EthSpec == EthInit /\ [][EthNext]_vars

\* Block propagation on its own: sessions come and go, peers announce the block, the
\* import reports on it.
PropagationInit == InitWith("PoW", FALSE, FALSE, NumPeers)

PropagationOutcomes ==
    {Item(k, p, "") : k \in {"ValidHeader", "ValidBlock"}, p \in ActivePeers}

PropagationNext ==
    \/ \E p \in ActivePeers : PropagateSessionEstablished(p)
    \/ \E p \in ActivePeers : PropagateSessionClosed(p)
    \/ \E p \in ActivePeers : PropagatePeerNewBlock(p)
    \/ \E p \in ActivePeers : PropagatePeerNewBlockHashes(p)
    \/ \E o \in PropagationOutcomes : PropagateImportResult(o)

PropagationSpec == PropagationInit /\ [][PropagationNext]_vars

\* ---------------------------------------------------------------- claims
Rank(phase) == CASE phase = "import" -> 1 [] phase = "command" -> 2 [] phase = "swarm" -> 3

\* C1: within a wakeup the phases handle their items in the order import, commands,
\* swarm, each phase once: no import outcome is handled after a command or a swarm
\* event, and no command after a swarm event.
C1_PhaseOrder ==
    /\ \A i, j \in 1..Len(phases) : i < j => Rank(phases[i]) < Rank(phases[j])
    /\ pc = "import" => phases \in {<<>>, <<"import">>}
    /\ pc = "commands" => \A i \in 1..Len(phases) : phases[i] # "swarm"

C1_Witness == phases = <<"import", "command", "swarm">> /\ from_handle_rx # <<>>

\* C2: a wakeup handles at most 1024 swarm events, the budget falling by one per
\* event from 1024; the wakeup ends with a self-wakeup exactly when it handled 1024.
C2_Budget ==
    /\ handled <= BUDGET
    /\ pc = "swarm" => budget = BUDGET - handled /\ budget > 0
    /\ pc = "idle" => (selfWoke <=> handled = BUDGET)
    /\ selfWoke /\ pc = "idle" => woken

C2_Witness == pc = "idle" /\ selfWoke /\ handled = BUDGET /\ budget = 0

\* C3: with the swarm ready at every poll, a command waiting while swarm events are
\* handled was sent after the command phase of the same wakeup, so at most 1024
\* events are handled before the next command phase takes it; and every command
\* sent is handled.
C3_Fairness ==
    /\ [](from_handle_rx # <<>> /\ pc \in {"swarm", "idle"}
            => carried = 0 /\ handled <= BUDGET)
    /\ \A n \in 1..MaxCmds : (enq >= n) ~> (enq - Len(from_handle_rx) >= n)

C3_Witness ==
    /\ pc = "commands"
    /\ selfWoke
    /\ handled = 0
    /\ last.kind = "DisconnectPeer"
    /\ enq - Len(from_handle_rx) = MaxCmds

\* C4: whenever poll has returned, num_active_peers is the number of established sessions.
C4_ActiveCount ==
    pc \in {"idle", "done"} => num_active_peers = NumEstablished(swarm)

C4_Witness ==
    /\ pc = "idle"
    /\ num_active_peers = NumPeers
    /\ swarm.sessions[1]["in"] = 1
    /\ swarm.sessions[2]["out"] = 1

\* C5: no peer has more than one established session, and a handshake that
\* completes for a peer with a session leaves that session as it is.
C5_OneSession ==
    [][\A p \in Peers :
          /\ NumSessions(swarm', p) <= 1
          /\ HasSession(swarm, p) /\ HasSession(swarm', p)
                => swarm'.sessions[p] = swarm.sessions[p]]_vars

C5_Witness ==
    /\ calls = <<Call("sessions.reject_already_connected", 1, "out")>>
    /\ swarm.sessions[1]["in"] = 1

ShutdownCalls(sent) ==
    <<Call("swarm.on_shutdown_requested", NoPeer, ""),
      Call("sessions.disconnect_all", NoPeer, "ClientQuitting"),
      Call("sessions.disconnect_all_pending", NoPeer, ""),
      Call("tx.send", NoPeer, sent)>>

\* C7: the Shutdown handler sets ShuttingDown, calls disconnect_all(ClientQuitting),
\* calls disconnect_all_pending, and signals done once, last, in that order; the
\* shutdown stands whether or not done could be delivered.
C7_ShutdownOrder ==
    last.kind = "Shutdown" =>
        /\ \E sent \in {"delivered", "failed"} : calls = ShutdownCalls(sent)
        /\ is_shutting_down(swarm)
        /\ swarm.closing = Established(swarm)
        /\ swarm.pendingOut = {}
        /\ swarm.pendingIn = 0

C7_Witness ==
    /\ last.kind = "Shutdown"
    /\ calls = ShutdownCalls("failed")
    /\ is_shutting_down(swarm)
    /\ swarm.closing = Peers

\* C8: an AddPeerAddress handled while ShuttingDown (after a Shutdown) leaves the
\* peer set as it is and queues no PeerAdded; one handled while Active is passed to
\* the peer set.
C8_AddPeerAfterShutdown ==
    [][/\ pc = "commands"
       /\ from_handle_rx # <<>>
       /\ Head(from_handle_rx).kind = "AddPeerAddress"
       /\ from_handle_rx' = Tail(from_handle_rx)
       => IF is_shutting_down(swarm)
          THEN swarm' = swarm /\ calls' = <<>>
          ELSE /\ Head(from_handle_rx).peer \in swarm'.known
               /\ calls' = <<Call("state.add_peer_kind", Head(from_handle_rx).peer,
                                   Head(from_handle_rx).arg)>>]_vars

C8_Witness ==
    /\ last.kind = "AddPeerAddress"
    /\ is_shutting_down(swarm)
    /\ swarm.known = {}
    /\ swarm.peer_actions = <<>>

\* C9: ShuttingDown is never left, and while ShuttingDown no outbound dial starts
\* and no inbound connection becomes a pending session.
C9_ShutdownSticky ==
    [][is_shutting_down(swarm) =>
          /\ is_shutting_down(swarm')
          /\ swarm'.pendingOut \subseteq swarm.pendingOut
          /\ swarm'.pendingIn <= swarm.pendingIn
          /\ last'.kind \notin {"IncomingTcpConnection", "OutgoingTcpConnection"}]_vars

C9_Witness ==
    /\ is_shutting_down(swarm)
    /\ last.kind = "TcpListenerError"
    /\ \E p \in swarm.known : ~HasSession(swarm, p) /\ p \notin swarm.pendingOut

\* C10, as claimed: the driver returns only once the swarm has drained, so that
\* after a Shutdown num_active_peers is 0 and no session awaits its SessionClosed
\* when poll yields Ready.
C10_ReturnsDrained ==
    pc = "done" /\ is_shutting_down(swarm) =>
        num_active_peers = 0 /\ Established(swarm) = {}

\* C10, amended: poll yields Ready exactly when the command phase finds the channel
\* closed and empty, before the swarm is polled in that wakeup, whatever sessions
\* are established; until the channel is closed every wakeup ends Pending.
C10_ReturnsOnClose ==
    pc = "done" =>
        /\ chanClosed
        /\ from_handle_rx = <<>>
        /\ \A i \in 1..Len(phases) : phases[i] # "swarm"

C10_Witness ==
    /\ pc = "done"
    /\ is_shutting_down(swarm)
    /\ num_active_peers > 0
    /\ swarm.closing # {}

\* C11: poll yields Ready if and only if the command phase observes the channel
\* closed: a step reaches Ready only from the command phase with the channel closed
\* and empty, and there the command phase yields nothing else; the swarm phase only
\* ever ends in Pending, whether an event was handled, the swarm was Pending or its
\* stream had ended; a Shutdown, a TcpListenerClosed or a TcpListenerError just
\* handled has not ended the future; and the channel is closed by nobody but a
\* deliberate close, never by a step of the manager.
C11_EndlessFuture ==
    [][/\ pc' = "done" /\ pc # "done"
            => pc = "commands" /\ chanClosed /\ from_handle_rx = <<>>
       /\ pc = "commands" /\ chanClosed /\ from_handle_rx = <<>> /\ pc' # pc
            => pc' = "done"
       /\ pc = "swarm" /\ pc' # "swarm" => pc' = "idle"
       /\ last'.kind \in {"Shutdown", "TcpListenerClosed", "TcpListenerError"}
            => pc' \in {"commands", "swarm", "idle"}
       /\ chanClosed' /\ ~chanClosed => pc' = pc /\ last' = NoItem]_vars

C11_Witness ==
    /\ pc = "swarm"
    /\ last.kind = "TcpListenerClosed"
    /\ is_shutting_down(swarm)
    /\ ~chanClosed
    /\ handled = MaxBurst

BlockMessages == {"NewBlockHashes", "NewBlock"}

\* C12: in PoS mode a NewBlockHashes or NewBlock from peer p makes exactly one call,
\* sessions.disconnect(p, SubprotocolSpecific): no seen-block set is updated, the
\* block import is not invoked and never holds a block; in PoW mode these messages
\* cause no disconnect.
C12_Eip3675Rejection ==
    /\ is_stake => \A p \in Peers : block_import[p] = 0
    /\ last.kind = "ValidMessage" /\ last.arg \in BlockMessages =>
          IF is_stake
          THEN /\ calls = <<Call("sessions.disconnect", last.peer, "SubprotocolSpecific")>>
               /\ last.peer \in swarm.closing
          ELSE \A i \in 1..Len(calls) : calls[i].op # "sessions.disconnect"

C12_Witness ==
    /\ is_stake
    /\ last = Item("ValidMessage", 2, "NewBlockHashes")
    /\ calls = <<Call("sessions.disconnect", 2, "SubprotocolSpecific")>>
    /\ swarm.closing = {2}

Announces == {"state.announce_new_block", "state.announce_new_block_hash"}

\* C13: in PoS mode no step of the manager asks for an announce, whether it handled
\* a command (AnnounceBlock included) or a block-import outcome; in PoW mode an
\* AnnounceBlock makes the one call announce_new_block.
C13_PoSAnnouncesSuppressed ==
    /\ is_stake => \A i \in 1..Len(calls) : calls[i].op \notin Announces
    /\ ~is_stake /\ last.kind = "AnnounceBlock"
          => calls = <<Call("state.announce_new_block", NoPeer, "")>>

\* C14: the eth-request channel never holds more than its capacity; a request for
\* the eth-request task that finds a free slot is appended behind the requests
\* already buffered and the metric is left alone; one that finds the channel full
\* is dropped, the buffer is left as it is and
\* total_dropped_eth_requests_at_full_capacity goes up by one; in both cases the
\* handler returns to the swarm loop at once.
C14_EthBackpressure ==
    [][/\ Len(to_eth_request_handler'.buf) <= EthCapacity
       /\ last'.kind = "ValidMessage" /\ last'.arg \in EthHandlerRequests
          /\ to_eth_request_handler.set
          => /\ handled' = handled + 1
             /\ pc' \in {"swarm", "idle"}
             /\ IF Len(to_eth_request_handler.buf) < EthCapacity
                THEN /\ to_eth_request_handler'.buf =
                            Append(to_eth_request_handler.buf,
                                   Item(last'.arg, last'.peer, ""))
                     /\ metrics' = metrics
                ELSE /\ to_eth_request_handler'.buf = to_eth_request_handler.buf
                     /\ metrics' = metrics + 1]_vars

C14_Witness ==
    /\ last = Item("ValidMessage", 1, "GetBlockHeaders")
    /\ to_eth_request_handler.buf =
            <<Item("GetBlockHeaders", 1, ""), Item("GetBlockHeaders", 1, "")>>
    /\ metrics = 1
    /\ calls = <<Call("metrics.total_dropped_eth_requests_at_full_capacity.increment",
                      1, "GetBlockHeaders")>>

TxManagerEvent(msg) ==
    CASE msg = "PooledTransactions" -> "IncomingPooledTransactionHashes"
      [] msg = "ReceivedTransaction" -> "IncomingTransactions"
      [] msg = "GetPooledTransactions" -> "GetPooledTransactions"

\* C16: in either mode, a request for the eth-request task makes one call, on the
\* eth-request channel (try_send, or the drop count when it is full) and none on
\* the transactions manager; GetPooledTransactions, PooledTransactions and
\* ReceivedTransaction make one call, a send to the transactions manager with the
\* sending peer, and none on the eth-request channel; Other makes no call. A
\* channel that is not set receives nothing.
C16_Routing ==
    last.kind = "ValidMessage" =>
        /\ last.arg \in EthHandlerRequests =>
              IF to_eth_request_handler.set
              THEN \/ calls = <<Call("to_eth_request_handler.try_send", last.peer, last.arg)>>
                   \/ /\ calls = <<Call("metrics.total_dropped_eth_requests_at_full_capacity.increment",
                                         last.peer, last.arg)>>
                      /\ Len(to_eth_request_handler.buf) = EthCapacity
              ELSE calls = <<>>
        /\ last.arg \in {"GetPooledTransactions", "PooledTransactions", "ReceivedTransaction"} =>
              IF to_transactions_manager
              THEN calls = <<Call("to_transactions_manager.send", last.peer,
                                  TxManagerEvent(last.arg))>>
              ELSE calls = <<>>
        /\ last.arg = "Other" => calls = <<>>

C16_Witness ==
    /\ is_stake
    /\ last = Item("ValidMessage", 1, "GetPooledTransactions")
    /\ calls = <<Call("to_transactions_manager.send", 1, "GetPooledTransactions")>>
    /\ to_eth_request_handler.buf = <<Item("GetReceipts", 1, "")>>

\* C17: in PoW mode a NewBlock from peer p first records the block as seen by p
\* (state.on_new_block) and then hands it to the block import, once
\* (block_import.on_new_block, one more block under validation for p); a
\* NewBlockHashes from p makes the one call state.on_new_block_hashes and leaves
\* the block import as it is.
C17_NewBlockImport ==
    [][~is_stake /\ last'.kind = "ValidMessage" =>
          /\ last'.arg = "NewBlock" =>
                /\ calls' = <<Call("state.on_new_block", last'.peer, ""),
                              Call("block_import.on_new_block", last'.peer, "")>>
                /\ block_import' = [block_import EXCEPT ![last'.peer] = @ + 1]
          /\ last'.arg = "NewBlockHashes" =>
                /\ calls' = <<Call("state.on_new_block_hashes", last'.peer, "")>>
                /\ block_import' = block_import]_vars

C17_Witness ==
    /\ ~is_stake
    /\ last = Item("ValidMessage", 1, "NewBlock")
    /\ block_import[1] = 1
    /\ num_active_peers = 1
    /\ estOpen[1] = 1

\* C18: an outcome from peer p is dispatched by its result: ValidHeader calls
\* update_peer_block for p and then announce_new_block; ValidBlock calls only
\* announce_new_block_hash; Err makes one call, the BadBlock reputation change of
\* p, and announces nothing.
C18_ImportDispatch ==
    /\ last.kind = "ValidHeader" =>
          calls = <<Call("state.update_peer_block", last.peer, ""),
                    Call("state.announce_new_block", NoPeer, "")>>
    /\ last.kind = "ValidBlock" =>
          calls = <<Call("state.announce_new_block_hash", NoPeer, "")>>
    /\ last.kind = "Err" =>
          calls = <<Call("peers.apply_reputation_change", last.peer, "BadBlock")>>

C18_Witness ==
    /\ last = Item("Err", 1, "")
    /\ calls = <<Call("peers.apply_reputation_change", 1, "BadBlock")>>
    /\ pc = "import"
    /\ num_active_peers = NumPeers

\* C19: handling SessionEstablished for peer p raises num_active_peers by exactly
\* one, calls on_incoming_session_established(p) exactly when the session is
\* incoming, and then broadcasts one NetworkEvent::SessionEstablished for p, as the
\* handler's last call.
C19_SessionEstablished ==
    [][last'.kind = "SessionEstablished" =>
          /\ num_active_peers' = num_active_peers + 1
          /\ estOpen' = [estOpen EXCEPT ![last'.peer] = @ + 1]
          /\ calls' = IF last'.arg = "in"
                      THEN <<Call("peers.on_incoming_session_established", last'.peer, ""),
                             Call("notify.SessionEstablished", last'.peer, "")>>
                      ELSE <<Call("notify.SessionEstablished", last'.peer, "")>>]_vars

C19_Witness ==
    /\ last = Item("SessionEstablished", 2, "out")
    /\ calls = <<Call("notify.SessionEstablished", 2, "")>>
    /\ num_active_peers = 2
    /\ swarm.sessions[1]["in"] = 1

\* C20: handling SessionClosed for peer p lowers num_active_peers by exactly one,
\* calls on_active_session_dropped when the event carries an error and
\* on_active_session_gracefully_closed when it carries none, never both, and then
\* broadcasts one NetworkEvent::SessionClosed for p whose reason is present only when
\* the error is a disconnect.
C20_SessionClosed ==
    [][last'.kind = "SessionClosed" =>
          /\ num_active_peers' = num_active_peers - 1
          /\ estOpen' = [estOpen EXCEPT ![last'.peer] = @ - 1]
          /\ calls' =
                CASE last'.arg = "none" ->
                        <<Call("peers.on_active_session_gracefully_closed", last'.peer, ""),
                          Call("notify.SessionClosed", last'.peer, "None")>>
                  [] last'.arg = "disconnected" ->
                        <<Call("peers.on_active_session_dropped", last'.peer, "disconnected"),
                          Call("notify.SessionClosed", last'.peer, "Some")>>
                  [] last'.arg = "io" ->
                        <<Call("peers.on_active_session_dropped", last'.peer, "io"),
                          Call("notify.SessionClosed", last'.peer, "None")>>]_vars

C20_Witness ==
    /\ last = Item("SessionClosed", 1, "disconnected")
    /\ calls[2] = Call("notify.SessionClosed", 1, "Some")
    /\ num_active_peers = 0
    /\ estOpen[1] = 0

\* C21: commands are handled in the order they were sent: a send appends to the
\* channel, the command a step handles is the oldest one buffered, and it leaves
\* the channel in that step, with its effects, so that a command sent later is
\* handled later, in this wakeup or a later one; commands are handled only in the
\* command phase, and while poll is in the command phase no swarm event and no
\* import outcome is handled.
C21_CommandFifo ==
    [][/\ Len(from_handle_rx') > Len(from_handle_rx)
            => /\ \E c \in Commands : from_handle_rx' = Append(from_handle_rx, c)
               /\ last' = NoItem
               /\ swarm' = swarm
       /\ Len(from_handle_rx') < Len(from_handle_rx)
            => /\ pc = "commands" /\ pc' = "commands"
               /\ last' = Head(from_handle_rx)
               /\ from_handle_rx' = Tail(from_handle_rx)
       /\ last' \in Commands => Len(from_handle_rx') < Len(from_handle_rx)
       /\ pc = "commands" => last' \notin SwarmEvents \cup ImportOutcomes
       /\ pc' = "commands" => last' \notin SwarmEvents \cup ImportOutcomes]_vars

C21_Witness ==
    /\ pc = "commands"
    /\ last = Item("Shutdown", NoPeer, "rx_alive")
    /\ swarm.known = {1}
    /\ enq = MaxCmds
    /\ from_handle_rx = <<>>
    /\ num_active_peers = 1

\* C22: the events of a peer are handled one by one as the swarm yields them, and
\* what a step emits is emitted for the peer of the event it handled: a message of
\* p is handled only between the SessionEstablished broadcast for p and the
\* SessionClosed broadcast of that session; the two broadcasts alternate, made by
\* the steps that handle p's SessionEstablished and SessionClosed and by no other;
\* and a request forwarded to the eth-request task goes behind those forwarded
\* before it.
C22_PerPeerOrder ==
    [][\A p \in Peers :
          /\ last'.kind = "ValidMessage" /\ last'.peer = p
                => estOpen[p] = 1 /\ estOpen'[p] = 1
          /\ last'.kind = "SessionEstablished" /\ last'.peer = p
                => estOpen[p] = 0 /\ estOpen'[p] = 1
          /\ last'.kind = "SessionClosed" /\ last'.peer = p
                => estOpen[p] = 1 /\ estOpen'[p] = 0
          /\ estOpen'[p] # estOpen[p]
                => last'.peer = p /\ last'.kind \in {"SessionEstablished", "SessionClosed"}
          /\ last' \in SwarmEvents /\ last'.peer = p
                => /\ \A i \in 1..Len(calls') : calls'[i].peer = p
                   /\ \A q \in Peers \ {p} : block_import'[q] = block_import[q]
                   /\ \/ to_eth_request_handler'.buf = to_eth_request_handler.buf
                      \/ to_eth_request_handler'.buf =
                            Append(to_eth_request_handler.buf, Item(last'.arg, p, ""))]_vars

C22_Witness ==
    /\ last = Item("SessionClosed", 1, "none")
    /\ estOpen[1] = 0
    /\ estOpen[2] = 1
    /\ to_eth_request_handler.buf =
            <<Item("GetBlockHeaders", 1, ""), Item("GetReceipts", 1, "")>>

\* The reputation of every peer lies in [REP_MIN, REP_MAX], and every peer that
\* has a record and a reputation below BAN_THRESHOLD is BackedOff (a removed peer
\* has no record). A trusted peer whose reputation has fallen below the threshold
\* breaks the second part.
ReputationBounds ==
    \A p \in Peers :
        /\ swarm.rep[p] >= REP_MIN /\ swarm.rep[p] <= REP_MAX
        /\ p \in swarm.known /\ swarm.rep[p] < BAN_THRESHOLD
              => PeerState(swarm, p) = "BackedOff"

\* The same for the peers that are not trusted.
ReputationBoundsUntrusted ==
    \A p \in Peers :
        /\ swarm.rep[p] >= REP_MIN /\ swarm.rep[p] <= REP_MAX
        /\ p \in swarm.known /\ swarm.rep[p] < BAN_THRESHOLD /\ ~is_trusted(swarm, p)
              => PeerState(swarm, p) = "BackedOff"

\* C24: a trusted peer is never BackedOff and, once it has a record, keeps it as
\* a trusted one, whatever reputation changes, connection failures and RemovePeer
\* commands follow; its reputation may fall all the same; and it is dialled
\* whenever it has neither a session nor a handshake under way and the count of
\* active peers is below the limit.
C24_TrustedKept ==
    /\ [](\A p \in Peers :
            is_trusted(swarm, p) =>
                /\ ~is_backed_off(swarm, p)
                /\ ~HasSession(swarm, p) /\ p \notin swarm.pendingOut
                   /\ NumEstablished(swarm) < swarm.max_active
                      => NextDial(swarm, p))
    /\ [][\A p \in Peers : is_trusted(swarm, p) => is_trusted(swarm', p)]_vars

C24_Witness ==
    /\ last = Item("RemovePeer", 1, "")
    /\ is_trusted(swarm, 1)
    /\ swarm.rep[1] = REP_MIN
    /\ swarm.strikes[1] = MaxStrikes
    /\ PeerState(swarm, 1) = "Idle"

\* the reputation change a handled item asks of the peer set
ChangeKind(item) ==
    CASE item.kind \in {"InvalidCapabilityMessage", "ProtocolBreach"} -> "BadProtocol"
      [] item.kind = "BadMessage" -> "BadMessage"
      [] item.kind = "Err" -> "BadBlock"
      [] item.kind = "ReputationChange" -> item.arg

ChangeItems ==
    {"InvalidCapabilityMessage", "ProtocolBreach", "BadMessage", "Err", "ReputationChange"}

\* C25: a step that handles InvalidCapabilityMessage, BadMessage, ProtocolBreach, a
\* failed import or a ReputationChange command applies the delta of its kind to the
\* peer's reputation, clamped; when that takes a peer that is not trusted below
\* BAN_THRESHOLD the peer is BackedOff with a backoff window that is not over, its
\* session, if it has one, has been told to disconnect, and num_backed_off_peers is
\* one more than before, or the same if the peer was BackedOff already; a change
\* that leaves the reputation at or above the threshold changes neither the backoff
\* nor the count; and the count is the number of BackedOff peers.
C25_ReputationBan ==
    /\ [](swarm.num_backed_off = Cardinality({p \in Peers : is_backed_off(swarm, p)}))
    /\ [][last'.kind \in ChangeItems /\ last'.peer \in swarm.known
          /\ ~is_trusted(swarm, last'.peer) =>
            LET p == last'.peer
                r == Clamp(swarm.rep[p] + Delta(ChangeKind(last')))
            IN  /\ swarm'.rep[p] = r
                /\ calls' = <<Call("peers.apply_reputation_change", p, ChangeKind(last'))>>
                /\ IF r < BAN_THRESHOLD
                   THEN /\ PeerState(swarm', p) = "BackedOff"
                        /\ swarm'.backoff[p] > 0
                        /\ HasSession(swarm', p) => p \in swarm'.closing
                        /\ swarm'.num_backed_off =
                              IF is_backed_off(swarm, p) THEN swarm.num_backed_off
                              ELSE swarm.num_backed_off + 1
                   ELSE /\ swarm'.backoff = swarm.backoff
                        /\ swarm'.num_backed_off = swarm.num_backed_off
                        /\ swarm'.closing = swarm.closing]_vars

C25_Witness ==
    /\ last = Item("InvalidCapabilityMessage", 2, "")
    /\ swarm.rep[2] = REP_MIN
    /\ PeerState(swarm, 2) = "BackedOff"
    /\ swarm.num_backed_off = 1
    /\ swarm.closing = {2}
    /\ num_active_peers = 1

\* C26: as long as a peer keeps its record, its count of consecutive failures goes
\* down only when a session with it is established, which sets it to 0; an
\* OutgoingConnectionError for the peer is reported to the peer set and raises the
\* count by one, and the backoff it brings on a peer that is not trusted is that of
\* the new count, which is at least the backoff of the failure before.
C26_BackoffMonotonic ==
    [][\A p \in Peers :
          p \in swarm.known /\ p \in swarm'.known =>
              /\ ~(last'.kind = "SessionEstablished" /\ last'.peer = p)
                    => swarm'.strikes[p] >= swarm.strikes[p]
              /\ last'.kind = "SessionEstablished" /\ last'.peer = p
                    => swarm'.strikes[p] = 0
              /\ last' = Item("OutgoingConnectionError", p, "io") =>
                    /\ calls' = <<Call("peers.on_outgoing_connection_failure", p, "io")>>
                    /\ swarm'.strikes[p] = swarm.strikes[p] + 1
                    /\ ~is_trusted(swarm, p) =>
                          /\ swarm'.backoff[p] =
                                backoff("FailedToConnect", swarm'.strikes[p])
                          /\ swarm.strikes[p] > 0 =>
                                swarm'.backoff[p] >=
                                    backoff("FailedToConnect", swarm.strikes[p])]_vars

C26_Witness ==
    /\ last = Item("OutgoingConnectionError", 2, "io")
    /\ swarm.strikes[2] = MaxStrikes
    /\ swarm.backoff[2] = backoff("FailedToConnect", MaxStrikes)
    /\ swarm.kind[2] = "Static"
    /\ swarm.num_backed_off = 1

QueuedFor(sw, kind, ps) ==
    {i \in 1..Len(sw.peer_actions) :
        sw.peer_actions[i].kind = kind /\ sw.peer_actions[i].peer \in ps}

\* C28: num_known_peers is at all times the number of records of the peer set; a
\* record is added or removed in the step that queues its PeerAdded or PeerRemoved,
\* so the count has the change before the broadcast is delivered; and handling the
\* event broadcasts it, leaves the peer set as it is and sets the tracked_peers
\* gauge to num_known_peers.
C28_KnownPeersCount ==
    /\ [](num_known_peers(swarm) = Cardinality(swarm.known))
    /\ [][/\ \A p \in Peers :
                /\ p \in swarm'.known \ swarm.known =>
                      Cardinality(QueuedFor(swarm', "PeerAdded", {p})) =
                          Cardinality(QueuedFor(swarm, "PeerAdded", {p})) + 1
                /\ p \in swarm.known \ swarm'.known =>
                      Cardinality(QueuedFor(swarm', "PeerRemoved", {p})) =
                          Cardinality(QueuedFor(swarm, "PeerRemoved", {p})) + 1
          /\ last'.kind \in {"PeerAdded", "PeerRemoved"} =>
                /\ calls' = <<Call("notify." \o last'.kind, last'.peer, "")>>
                /\ swarm'.known = swarm.known
                /\ num_known_peers(swarm') = num_known_peers(swarm)
                /\ tracked_peers' = num_known_peers(swarm')
                /\ tracked_peers' = Cardinality(swarm'.known)]_vars

\* PeerAdded for peer 2 is handled when the peer set has two records: the gauge is 2
C28_Witness ==
    /\ last = Item("PeerAdded", 2, "")
    /\ swarm.known = {1, 2}
    /\ tracked_peers = 2
    /\ calls = <<Call("notify.PeerAdded", 2, "")>>

\* the peers a step queues a NewBlock, a NewBlockHashes for
NewFull == propagation'.full \ propagation.full
NewHashes == propagation'.hashes \ propagation.hashes

C30_ForkTransition ==
    [][last'.kind = "StatusUpdate" =>
          LET head == last'.arg
              crossed == ForkIdAt(head) # ForkIdAt(swarm.head)
          IN  /\ swarm'.head = head
              /\ crossed =>
                    /\ calls' = <<Call("sessions.on_status_update", NoPeer, head),
                                  Call("state.update_fork_id", NoPeer, ForkIdAt(head))>>
                    /\ swarm'.fork_id = ForkIdAt(head)
              /\ ~crossed =>
                    /\ calls' = <<Call("sessions.on_status_update", NoPeer, head)>>
                    /\ swarm'.fork_id = swarm.fork_id]_vars

\* a StatusUpdate whose head is past the fork block has been handled
C30_Witness ==
    /\ last = Item("StatusUpdate", NoPeer, ForkBlock)
    /\ swarm.head = ForkBlock
    /\ swarm.fork_id = 1
    /\ Len(calls) = 2

\* the manager after RemovePeer for peer p has been handled in the present state
AfterRemovePeer(m, p) ==
    on_handle_message([m EXCEPT !.calls = <<>>], Item("RemovePeer", p, ""))

\* C31: handling RemovePeer for a peer the peer set has no record of makes the one
\* call remove_peer and leaves the peer set, the sessions, the counters, the gauges
\* and the position of poll as they were, with no PeerRemoved queued or broadcast;
\* and in every state handling RemovePeer a second time gives the state that
\* handling it once gave.
C31_RemovePeerIdempotent ==
    /\ [](\A p \in Peers :
             AfterRemovePeer(AfterRemovePeer(Mgr(swarm), p), p)
                 = AfterRemovePeer(Mgr(swarm), p))
    /\ [][\A p \in Peers :
             last' = Item("RemovePeer", p, "") /\ p \notin swarm.known =>
                 /\ calls' = <<Call("state.remove_peer", p, "")>>
                 /\ swarm' = swarm
                 /\ pc' = pc
                 /\ UNCHANGED <<num_active_peers, block_import, estOpen, mode, chanClosed>>
                 /\ UNCHANGED <<outs, outcomes, observed>>]_vars

\* the last of the commands sent was RemovePeer for peer 2, handled when the peer
\* set had no record of the peer: nothing is queued, the gauge is untouched
C31_Witness ==
    /\ last = Item("RemovePeer", 2, "")
    /\ 2 \notin swarm.known
    /\ enq = MaxCmds
    /\ from_handle_rx = <<>>
    /\ calls = <<Call("state.remove_peer", 2, "")>>
    /\ Cardinality(QueuedFor(swarm, "PeerRemoved", {2})) = 0
    /\ tracked_peers = 0

\* C32: handling GetReputationById, FetchClient, GetStatus, GetPeerInfo or
\* GetPeerInfoById makes one call, the send of the reply on the command's channel,
\* with the value read from the state the command is handled in: the reputation of
\* the peer's record if it has one, the head of the status, the peers with a
\* session, the peer asked about if it has a session; the send is made whether or
\* not the receiver is still there, and the peer set, the sessions, the counters,
\* the gauges and the connection state stay as they were.
C32_SnapshotQueries ==
    [][last'.kind \in Queries =>
          LET p == last'.peer
              value ==
                  CASE last'.kind = "GetReputationById" ->
                          {r \in REP_MIN..REP_MAX : p \in swarm.known /\ swarm.rep[p] = r}
                    [] last'.kind = "FetchClient" -> {}
                    [] last'.kind = "GetStatus" -> {swarm.head}
                    [] last'.kind = "GetPeerInfo" ->
                          {q \in Peers : swarm.sessions[q]["in"] + swarm.sessions[q]["out"] > 0}
                    [] last'.kind = "GetPeerInfoById" ->
                          {q \in {p} : swarm.sessions[q]["in"] + swarm.sessions[q]["out"] > 0}
          IN  /\ Len(calls') = 1
              /\ calls'[1].op = "tx.send"
              /\ calls'[1].arg.value = value
              /\ calls'[1].arg.rx = IF last'.arg = "rx_alive" THEN "delivered" ELSE "failed"
              /\ swarm' = swarm
              /\ UNCHANGED <<num_active_peers, block_import, estOpen, mode, chanClosed>>
              /\ UNCHANGED <<outs, outcomes, observed>>]_vars

\* the reputation of peer 2 is asked for after a BadMessage lowered it, and the
\* reply goes to a receiver that has been dropped
C32_Witness ==
    /\ last = Item("GetReputationById", 2, "rx_dropped")
    /\ Len(calls) = 1
    /\ calls[1].arg = [value |-> {DEFAULT_REPUTATION + Delta("BadMessage")}, rx |-> "failed"]
    /\ swarm.rep[2] = DEFAULT_REPUTATION + Delta("BadMessage")

\* C33: num_active_peers changes only in the step that handles SessionEstablished,
\* by +1, or SessionClosed, by -1: the steps that handle a command (DisconnectPeer
\* and Shutdown among them), an import outcome or any other swarm event, and the
\* steps that handle nothing, leave it as it is; DisconnectPeer and Shutdown only
\* tell the sessions to disconnect.
C33_ActivePeersFrame ==
    [][/\ last'.kind = "SessionEstablished" => num_active_peers' = num_active_peers + 1
       /\ last'.kind = "SessionClosed" => num_active_peers' = num_active_peers - 1
       /\ last'.kind \notin {"SessionEstablished", "SessionClosed"}
             => num_active_peers' = num_active_peers
       /\ last'.kind \in {"DisconnectPeer", "Shutdown"} =>
             /\ swarm'.sessions = swarm.sessions
             /\ Established(swarm) # {} => swarm'.closing # {}]_vars

\* Shutdown has been handled with a session established: the session is told to
\* disconnect and still counts
C33_Witness ==
    /\ last = Item("Shutdown", NoPeer, "rx_alive")
    /\ num_active_peers = 1
    /\ HasSession(swarm, NumPeers)
    /\ NumPeers \in swarm.closing

\* C34: a SessionClosed event is handled only when num_active_peers is at least 1
\* and a SessionEstablished for its peer has not been matched by a SessionClosed
\* yet, so fetch_sub(1) - 1 does not wrap around: the count stays the number of
\* sessions announced and not yet closed, which is at most one per peer and
\* direction.
C34_NoUnderflow ==
    /\ [](/\ num_active_peers = SumOver(estOpen, Peers)
          /\ num_active_peers <= NumPeers * Cardinality(Dirs))
    /\ [][last'.kind = "SessionClosed" =>
             /\ num_active_peers >= 1
             /\ estOpen[last'.peer] >= 1
             /\ num_active_peers' = num_active_peers - 1
             /\ num_active_peers' < num_active_peers]_vars

\* the last session has been closed: the count is back at 0
C34_Witness ==
    /\ last.kind = "SessionClosed"
    /\ num_active_peers = 0
    /\ estOpen = [p \in Peers |-> 0]
    /\ Established(swarm) = {}

\* a request for the eth-request task is handled in this step
EthRequestHandled == last'.kind = "ValidMessage" /\ last'.arg \in EthHandlerRequests

\* C35: total_dropped_eth_requests_at_full_capacity goes up, by one, in exactly the
\* steps that handle a request for the eth-request task while the task is
\* configured, its receiver is there and its channel is full, and the request is
\* then dropped; a request handled with no task configured or with the receiver
\* gone is dropped with no call made and the counter as it was; a request the
\* channel takes is appended to it and leaves the counter as it was.
C35_DroppedAtFullCapacity ==
    [][LET ch == to_eth_request_handler
           full == ch.set /\ ~ch.closed /\ Len(ch.buf) = EthCapacity
       IN  /\ metrics' = IF EthRequestHandled /\ full THEN metrics + 1 ELSE metrics
           /\ EthRequestHandled /\ full => ch'.buf = ch.buf
           /\ EthRequestHandled /\ (~ch.set \/ ch.closed) =>
                 /\ calls' = <<>>
                 /\ to_eth_request_handler' = ch
           /\ EthRequestHandled /\ ch.set /\ ~ch.closed /\ ~full =>
                 ch'.buf = Append(ch.buf, Item(last'.arg, last'.peer, ""))]_vars

\* a request arrives after the channel had filled up once and the task has gone
\* away: the counter stays at 1
C35_Witness ==
    /\ last = Item("ValidMessage", 1, "GetBlockHeaders")
    /\ to_eth_request_handler.closed
    /\ calls = <<>>
    /\ metrics = 1

\* ---------------------------------------------------------------- C36
\* the swarm events after which the backed_off_peers gauge is published
BackedOffPublishers ==
    {"SessionClosed", "IncomingPendingSessionClosed", "OutgoingPendingSessionClosed",
     "OutgoingConnectionError"}

\* C36: after handling a SessionClosed, an IncomingPendingSessionClosed, an
\* OutgoingPendingSessionClosed or an OutgoingConnectionError event, the published
\* backed_off_peers gauge equals num_backed_off_peers() of the peer set at that moment.
C36_BackedOffGauge ==
    [][last'.kind \in BackedOffPublishers
          => backed_off_peers' = num_backed_off_peers(swarm')]_vars

\* ---------------------------------------------------------------- C37
\* what a wakeup polls
Sources == {"import", "commands", "swarm"}

\* C37: no lost wakeup. A wakeup that ends in Pending without a self-wakeup has seen
\* block import and the command channel return Pending, and the swarm return Pending
\* or end, so each was left the waker; the manager never rests unwoken on a queued
\* command or a ready import outcome; and with an executor that polls the manager
\* whenever it is woken, every command sent and every import outcome, those of a
\* NewBlock handed over in the swarm phase included, is eventually handled.
C37_NoLostWakeup ==
    /\ [][pc # "idle" /\ pc' = "idle" /\ ~selfWoke' => observed' = Sources]_vars
    /\ [](pc = "idle" /\ ~woken
            => from_handle_rx = <<>> /\ \A p \in Peers : outcomes[p] = 0)
    /\ \A n \in 1..MaxCmds : (enq >= n) ~> (enq - Len(from_handle_rx) >= n)
    /\ \A p \in Peers : (outcomes[p] > 0) ~> (outcomes[p] = 0)

\* the outcome of a block that peer 1 handed over in a swarm phase is handled in the
\* import phase of a later wakeup, both commands having been handled
C37_Witness ==
    /\ pc = "import"
    /\ last = Item("ValidBlock", 1, "")
    /\ HasSession(swarm, 1)
    /\ outcomes[1] = 0
    /\ enq = MaxCmds
    /\ from_handle_rx = <<>>

====
